---- MODULE Spec2Model ----
(***************************************************************************)
(* A model of the log tailing and message normalisation pipeline of the    *)
(* EVE chat translator: the link tokenizer (src/core/tokenizer.py), the    *)
(* log tailer (src/core/tailer.py) and the session controller              *)
(* (src/core/session.py) with the shared worker of src/main.py.            *)
(*                                                                         *)
(* Text is a sequence of characters.  For the tokenizer a character is its *)
(* code point (an integer).  For the tailer a character is one unit of the *)
(* log file: the line terminator NL or a unit of line text; a position in  *)
(* the file (the cursor, the size) counts these units.                     *)
(***************************************************************************)
EXTENDS Integers, Sequences, FiniteSets, TLC

VARIABLES
    \* ---- link tokenizer (one tokenize / restore run) ----
    tk_pc,          \* "input" | "tokenized" | "restored"
    message,        \* the text handed to tokenize
    cleaned,        \* TokenizedMessage.cleaned
    tokens,         \* TokenizedMessage.tokens, in insertion order
    restored,       \* the result of restore(cleaned, tokens)
    \* ---- log files and one tailer ----
    disk,           \* path -> [exists, data]: the log files, written externally
    tailer,         \* the FleetLogTailer: [filepath, open, last_position]
    t_pc,           \* where a read_new_lines call stands: "idle" | "stat" | "reopen" | "read"
    t_op,           \* the tailer call that completed last
    t_result,       \* the list that call returned
    t_raised,       \* TRUE when that call raised instead of returning
    g2,             \* history: the seek_to_end / append / read scenario
    g4,             \* history: the truncate / append one line / read scenario
    \* ---- one ChatSession, the shared worker and the manager's routing ----
    age,            \* path -> seconds since the file was modified (time.time() - st_mtime)
    log_path,       \* ChatSession.log_path
    is_running,     \* ChatSession.is_running
    timer_active,   \* ChatSession.poll_timer is active
    config,         \* ChatSession.config: [fleet_history_lines, polling_interval]
    chat_history,   \* OverlayWindow.chat_history
    visible,        \* OverlayWindow is shown
    workq,          \* lines_ready batches queued for the worker thread
    routeq,         \* message_ready events queued for the manager's thread
    s_calls,        \* what the last start() or switch_fleet_log() called, in order
    run,            \* history: the number of start() and switch_fleet_log()
                    \* calls that did not return at their first check
    synced,         \* history: those of them that emitted no backfill batch
                    \* or left the tailer with an open handle at the end
    \* ---- one TranslationService.translate_message call ----
    tr_in,          \* the arguments, and what the provider's API will answer
    tr_out,         \* the tuple returned, <<>> before the call
    tr_calls,       \* the calls made to the glossary and to the provider's API
    \* ---- one LanguageDetector.should_translate call ----
    d_in,           \* the arguments, and what langdetect will answer
    d_out,          \* the tuple returned, <<>> before the call
    dl_out,         \* one detect_language call on the same text: what it
                    \* returned and its calls to langdetect, <<>> before the call
    \* ---- one EVEGlossary.replace_terms call, applied twice ----
    gl_in,          \* the term table and the text
    gl_out,         \* the results, <<>> before the call
    \* ---- one scan of the log directory by each detector ----
    sc_in,          \* the directory, the open client windows, the I/O faults
    sc_fleets,      \* what scan_active_fleets returned, <<>> before the call
    sc_chars,       \* what scan_active_characters returned, <<>> before the call
    \* ---- the shared worker and its thread ----
    service,        \* TranslationService: [provider]
    w_config,       \* LogProcessingWorker.config: [deepl_api_key]
    active,         \* the process_lines calls in progress
    w_trace,        \* history: the line the worker finished last, and how
    \* ---- the manager's sessions and the GUI thread ----
    sessions,       \* session_id -> [tailer, timer_active]
    gui,            \* the GUI thread: "idle", or the emit it waits in
    tick,           \* flips at every poll tick
    p_trace,        \* the last poll tick: [sid, calls, result]
    \* ---- the manager's registries, selections and sessions ----
    m_dir,          \* the log directory: what the next scans will find in it
    fleet_registry,         \* TranslatorManager.fleet_registry
    selected_fleet_id,      \* TranslatorManager.selected_fleet_id
    character_registry,     \* TranslatorManager.character_registry
    selected_character_id,  \* TranslatorManager.selected_character_id
    m_config,       \* TranslatorManager.config: fleet_auto_switch, and the
                    \* enabled flag of each session
    m_sessions,     \* TranslatorManager.sessions: session_id -> the session
    m_trace,        \* history: what the manager's last call decided and did
    m_pc            \* the manager: the step of __init__ it is at, or "running"

tokVars == <<tk_pc, message, cleaned, tokens, restored>>

tailVars == <<disk, tailer, t_pc, t_op, t_result, t_raised, g2, g4>>

sessVars == <<age, log_path, is_running, timer_active, config, chat_history,
              visible, workq, routeq, s_calls, run, synced>>

svcVars == <<tr_in, tr_out, tr_calls, d_in, d_out, dl_out, gl_in, gl_out,
             sc_in, sc_fleets, sc_chars>>

workVars == <<service, w_config, active, w_trace>>

pipeVars == <<sessions, gui, tick, p_trace>>

mgrVars == <<m_dir, fleet_registry, selected_fleet_id, character_registry,
             selected_character_id, m_config, m_sessions, m_trace, m_pc>>

vars == <<tk_pc, message, cleaned, tokens, restored,
          disk, tailer, t_pc, t_op, t_result, t_raised, g2, g4,
          age, log_path, is_running, timer_active, config, chat_history,
          visible, workq, routeq, s_calls, run, synced,
          tr_in, tr_out, tr_calls, d_in, d_out, dl_out, gl_in, gl_out,
          sc_in, sc_fleets, sc_chars,
          service, w_config, active, w_trace,
          sessions, gui, tick, p_trace,
          m_dir, fleet_registry, selected_fleet_id, character_registry,
          selected_character_id, m_config, m_sessions, m_trace, m_pc>>

(***************************************************************************)
(* Bounds.                                                                 *)
(***************************************************************************)
\* The number of pieces a tokenizer input is concatenated from.
MaxPieces == 3

(***************************************************************************)
(* Helpers on sequences.                                                   *)
(***************************************************************************)
Max(a, b) == IF a >= b THEN a ELSE b

\* s[i..] starts with the non-empty sequence old
StartsWithAt(s, old, i) ==
    /\ i + Len(old) - 1 <= Len(s)
    /\ SubSeq(s, i, i + Len(old) - 1) = old

\* Python's str.replace(old, new): every non-overlapping occurrence of old,
\* found left to right, is replaced by new (old is never empty here).
RECURSIVE ReplaceFrom(_, _, _, _)
ReplaceFrom(s, old, new, i) ==
    IF i > Len(s) THEN <<>>
    ELSE IF StartsWithAt(s, old, i)
         THEN new \o ReplaceFrom(s, old, new, i + Len(old))
         ELSE <<s[i]>> \o ReplaceFrom(s, old, new, i + 1)

str_replace(s, old, new) == ReplaceFrom(s, old, new, 1)

(***************************************************************************)
(* Link tokenizer: src/core/tokenizer.py                                   *)
(***************************************************************************)
\* Code points of the characters a placeholder is built from.
Underscore == 95

\* "EVELINK" as code points
EVELINK == <<69, 86, 69, 76, 73, 78, 75>>

\* str(n) for n >= 0, as code points
RECURSIVE DecimalStr(_)
DecimalStr(n) ==
    IF n < 10 THEN <<48 + n>>
    ELSE DecimalStr(n \div 10) \o <<48 + (n % 10)>>

\* f"__EVELINK_{token_counter}__"
Placeholder(n) ==
    <<Underscore, Underscore>> \o EVELINK \o <<Underscore>>
        \o DecimalStr(n) \o <<Underscore, Underscore>>

\* (char_code < 0x20) or (0x7F <= char_code <= 0x9F)
IsControl(c) == c < 32 \/ (127 <= c /\ c <= 159)

\* 0x20 <= c <= 0x7E
IsPrintableAscii(c) == 32 <= c /\ c <= 126

\* The inner loop of _detect_eve_links, entered at index i inside a span:
\* the index of the first character after the span (Len(m) + 1 at the end).
RECURSIVE ScanSpan(_, _)
ScanSpan(m, i) ==
    IF i > Len(m) THEN i
    ELSE IF IsControl(m[i]) THEN ScanSpan(m, i + 1)
    ELSE IF IsPrintableAscii(m[i])
         THEN IF i + 1 <= Len(m) /\ IsControl(m[i + 1])
              THEN ScanSpan(m, i + 1)
              ELSE i
    ELSE ScanSpan(m, i + 1)

\* _detect_eve_links from index i on: the (start, end, content) triples,
\* 1-based, end exclusive.
RECURSIVE DetectFrom(_, _)
DetectFrom(m, i) ==
    IF i > Len(m) THEN <<>>
    ELSE IF IsControl(m[i])
         THEN LET e == ScanSpan(m, i)
              IN  <<[start |-> i, end |-> e, content |-> SubSeq(m, i, e - 1)]>>
                      \o DetectFrom(m, e)
         ELSE DetectFrom(m, i + 1)

detect_eve_links(m) == DetectFrom(m, 1)

\* The loop of tokenize over links[k..]: the text before each link, then its
\* placeholder; at the end the remaining text.
RECURSIVE CleanedFrom(_, _, _, _)
CleanedFrom(m, links, k, last_idx) ==
    IF k > Len(links) THEN SubSeq(m, last_idx, Len(m))
    ELSE SubSeq(m, last_idx, links[k].start - 1) \o Placeholder(k)
             \o CleanedFrom(m, links, k + 1, links[k].end)

\* tokenize(message): cleaned text and the placeholder -> content map, kept
\* in insertion order (a Python dict iterates in insertion order).
tokenize(m) ==
    LET links == detect_eve_links(m)
    IN  IF links = <<>>
        THEN [cleaned |-> m, tokens |-> <<>>]
        ELSE [cleaned |-> CleanedFrom(m, links, 1, 1),
              tokens  |-> [k \in 1..Len(links) |->
                              [placeholder |-> Placeholder(k),
                               original    |-> links[k].content]]]

\* restore(message, tokens): one str.replace per token, in dict order.
RECURSIVE RestoreFrom(_, _, _)
RestoreFrom(result, toks, k) ==
    IF k > Len(toks) THEN result
    ELSE RestoreFrom(str_replace(result, toks[k].placeholder, toks[k].original),
                     toks, k + 1)

restore(msg, toks) == RestoreFrom(msg, toks, 1)

(***************************************************************************)
(* Log files and the tailer: src/core/tailer.py                            *)
(*                                                                         *)
(* A file is a sequence of units: NL (a line terminator, as the text layer *)
(* hands it to readlines) or a positive number, a unit of line text.  The  *)
(* cursor last_position and the size st_size count units.  The handle's    *)
(* own position is not kept: every read seeks to last_position first.      *)
(* A failing open, stat or read (OSError, UnicodeError) is the             *)
(* environment's choice, given to each operation as a Boolean.             *)
(***************************************************************************)
Paths == {"A", "B"}

\* The line terminator.
NL == 0

\* The longest file the external writer produces.
MaxFile == 4

\* The largest number of history lines asked of read_last_n_lines.
MaxHistory == 2

NoFile == [exists |-> FALSE, data |-> <<>>]

\* f.readlines(): the text cut after each terminator; the text after the last
\* terminator, if any, is a line of its own without a terminator.
RECURSIVE SplitLinesFrom(_, _, _)
SplitLinesFrom(s, i, cur) ==
    IF i > Len(s) THEN (IF cur = <<>> THEN <<>> ELSE <<cur>>)
    ELSE IF s[i] = NL
         THEN <<Append(cur, NL)>> \o SplitLinesFrom(s, i + 1, <<>>)
         ELSE SplitLinesFrom(s, i + 1, Append(cur, s[i]))

readlines(s) == SplitLinesFrom(s, 1, <<>>)

\* line.rstrip('\r\n')
RECURSIVE rstrip(_)
rstrip(line) ==
    IF line # <<>> /\ line[Len(line)] = NL
    THEN rstrip(SubSeq(line, 1, Len(line) - 1))
    ELSE line

StripAll(lines) == [i \in 1..Len(lines) |-> rstrip(lines[i])]

\* '[ 2' in line and '] ' in line: a text unit stands for message text that
\* carries the timestamp; a line of terminators only (a blank line) does not.
IsMessageLine(line) == \E i \in 1..Len(line) : line[i] # NL

\* The subsequence of the lines that satisfy IsMessageLine, each rstripped
RECURSIVE MessageLinesFrom(_, _)
MessageLinesFrom(lines, i) ==
    IF i > Len(lines) THEN <<>>
    ELSE IF IsMessageLine(lines[i])
         THEN <<rstrip(lines[i])>> \o MessageLinesFrom(lines, i + 1)
         ELSE MessageLinesFrom(lines, i + 1)

\* FleetLogTailer._open(); ok: open() does not raise OSError
open_file(t, d, ok) ==
    IF ~d[t.filepath].exists
    THEN [t EXCEPT !.open = FALSE]
    ELSE [t EXCEPT !.open = ok]

\* FleetLogTailer(filepath)
FleetLogTailer(path, d, ok) ==
    open_file([filepath |-> path, open |-> FALSE, last_position |-> 0], d, ok)

\* A seek_to_end that opens the file but does not record the end position
seek_to_end_keeps_cursor(t, d, ok) ==
    IF t.open THEN t
    ELSE IF d[t.filepath].exists THEN open_file(t, d, ok)
    ELSE t

\* FleetLogTailer.seek_to_end()
seek_to_end(t, d, ok) ==
    IF t.open
    THEN [t EXCEPT !.last_position = Len(d[t.filepath].data)]
    ELSE IF d[t.filepath].exists
         THEN LET t2 == open_file(t, d, ok)
              IN  IF t2.open
                  THEN [t2 EXCEPT !.last_position = Len(d[t.filepath].data)]
                  ELSE t2
         ELSE t

\* FleetLogTailer.close()
close(t) == [t EXCEPT !.open = FALSE]

\* FleetLogTailer.read_last_n_lines(n); ok: open and readlines do not raise
read_last_n_lines(t, d, n, ok) ==
    IF ~d[t.filepath].exists THEN <<>>
    ELSE IF ~ok THEN <<>>
    ELSE LET message_lines == MessageLinesFrom(readlines(d[t.filepath].data), 1)
         IN  IF Len(message_lines) <= n
             THEN message_lines
             ELSE SubSeq(message_lines, Len(message_lines) - n + 1,
                         Len(message_lines))

\* The outcome of one step of read_new_lines: the tailer, where the call
\* goes on ("idle": it ended), what it returned, whether it raised.
Goto(t, pc) == [t |-> t, pc |-> pc, ret |-> <<>>, raised |-> FALSE]

Return(t, lines) == [t |-> t, pc |-> "idle", ret |-> lines, raised |-> FALSE]

Raise(t) == [t |-> t, pc |-> "idle", ret |-> <<>>, raised |-> TRUE]

\* read_new_lines, lines 51-57: the existence check and the deferred open
rnl_enter(t, d, ok) ==
    IF ~d[t.filepath].exists THEN Return(t, <<>>)
    ELSE IF ~t.open
         THEN LET t2 == open_file(t, d, ok)
              IN  IF ~t2.open THEN Return(t2, <<>>) ELSE Goto(t2, "stat")
         ELSE Goto(t, "stat")

\* read_new_lines, lines 60-65 and 67-69: the size check; on a smaller size
\* the handle is closed and the cursor reset.  ok: stat() does not raise
rnl_stat(t, d, ok) ==
    IF ~d[t.filepath].exists \/ ~ok THEN Return(t, <<>>)
    ELSE IF Len(d[t.filepath].data) < t.last_position
         THEN Goto([t EXCEPT !.open = FALSE, !.last_position = 0], "reopen")
         ELSE Goto(t, "read")

\* read_new_lines, line 66: self._open() after the reset
rnl_reopen(t, d, ok) == Goto(open_file(t, d, ok), "read")

\* A read step whose new cursor is the file size, also when the file has
\* become shorter than the position the step seeks to
rnl_read_cursor_is_size(t, d, ok) ==
    IF ~t.open THEN Raise(t)
    ELSE IF ~ok THEN Return(t, <<>>)
    ELSE LET data == d[t.filepath].data
             lines == readlines(SubSeq(data, t.last_position + 1, Len(data)))
         IN  Return([t EXCEPT !.last_position = Len(data)], StripAll(lines))

\* read_new_lines, lines 72-80: seek, readlines, tell.  With file_handle None
\* the seek raises AttributeError, which the except clause does not catch.
\* ok: seek and readlines raise neither OSError nor UnicodeError
rnl_read(t, d, ok) ==
    IF ~t.open THEN Raise(t)
    ELSE IF ~ok THEN Return(t, <<>>)
    ELSE LET data == d[t.filepath].data
             lines == readlines(SubSeq(data, t.last_position + 1, Len(data)))
         IN  Return([t EXCEPT !.last_position = Max(t.last_position, Len(data))],
                    StripAll(lines))

(***************************************************************************)
(* History of the two scenarios the tailer's contract is stated for.  They *)
(* record what the external writer did; the tailer never reads them.       *)
(*   g2: seek_to_end, then only appends, then read_new_lines (twice).      *)
(*       st: "off" | "seek" | "read1" | "read2"; base: the file size at    *)
(*       the seek; ok: the seek left the file open and no call since met   *)
(*       an I/O error.                                                     *)
(*   g4: a truncation below the cursor, then one complete line appended,   *)
(*       then read_new_lines.  st: "off" | "trunc" | "line" | "read";      *)
(*       n: the size the file was truncated to; io: the read ended on an   *)
(*       I/O error.                                                        *)
(***************************************************************************)
G2Off == [st |-> "off", base |-> 0, ok |-> FALSE]

G4Off == [st |-> "off", n |-> 0, io |-> FALSE]

\* The text appended since the seek_to_end of the scenario
AppendedSince(base, data) == SubSeq(data, base + 1, Len(data))

\* Text that consists of complete lines: empty, or ending with a terminator
CompleteLines(s) == s = <<>> \/ s[Len(s)] = NL

\* g2 after the external writer acted
G2Ext(isAppend) ==
    IF g2.st = "seek" /\ t_pc = "idle" /\ isAppend THEN g2 ELSE G2Off

\* g2 after a step of read_new_lines with outcome o; ioerr: the step ended
\* the call on an I/O error
G2Step(o, ioerr, d) ==
    LET g == [g2 EXCEPT !.ok = g2.ok /\ ~ioerr]
    IN  IF o.pc # "idle" \/ g.st = "off" THEN g
        ELSE IF g.st = "seek"
             THEN IF g.base <= Len(d[o.t.filepath].data)
                     /\ CompleteLines(AppendedSince(g.base, d[o.t.filepath].data))
                  THEN [g EXCEPT !.st = "read1"]
                  ELSE G2Off
        ELSE IF g.st = "read1" THEN [g EXCEPT !.st = "read2"]
        ELSE G2Off

\* g4 after a step of read_new_lines with outcome o
G4Step(o, ioerr) ==
    IF o.pc # "idle" THEN g4
    ELSE IF g4.st = "line" THEN [g4 EXCEPT !.st = "read", !.io = ioerr]
    ELSE G4Off

(***************************************************************************)
(* The tailer on one log file, and the external writer of that file.       *)
(***************************************************************************)
\* The values the other components' variables keep in a specification that
\* does not run them
TokQuiet ==
    /\ tk_pc = "input"
    /\ message = <<>>
    /\ cleaned = <<>>
    /\ tokens = <<>>
    /\ restored = <<>>

SessQuiet ==
    /\ age = [p \in Paths |-> 0]
    /\ log_path = "A"
    /\ is_running = FALSE
    /\ timer_active = FALSE
    /\ config = [fleet_history_lines |-> 0, polling_interval |-> 1]
    /\ chat_history = <<>>
    /\ visible = FALSE
    /\ workq = <<>>
    /\ routeq = <<>>
    /\ s_calls = <<>>
    /\ run = 0
    /\ synced = {}

\* TranslationService(): the default provider and the glossary for English
GoogleService == [provider |-> "Google", api_key |-> <<>>, glossary |-> "en"]

\* The service after DeepLProvider(api_key) was installed
DeepLService(api_key) ==
    [provider |-> "DeepL", api_key |-> api_key, glossary |-> "en"]

GlossQuiet == gl_in = <<>> /\ gl_out = <<>>

ScanQuiet == sc_in = <<>> /\ sc_fleets = <<>> /\ sc_chars = <<>>

SvcQuiet ==
    /\ tr_in = <<>>
    /\ tr_out = <<>>
    /\ tr_calls = <<>>
    /\ d_in = <<>>
    /\ d_out = <<>>
    /\ dl_out = <<>>
    /\ GlossQuiet
    /\ ScanQuiet

WorkQuiet ==
    /\ service = GoogleService
    /\ w_config = [deepl_api_key |-> <<>>]
    /\ active = {}
    /\ w_trace = <<>>

PipeQuiet ==
    /\ sessions = <<>>
    /\ gui = "idle"
    /\ tick = 0
    /\ p_trace = <<>>

MgrQuiet ==
    /\ m_dir = <<>>
    /\ fleet_registry = <<>>
    /\ selected_fleet_id = <<>>
    /\ character_registry = <<>>
    /\ selected_character_id = <<>>
    /\ m_config = <<>>
    /\ m_sessions = <<>>
    /\ m_trace = <<>>
    /\ m_pc = <<>>

\* The services, the worker and the manager together
RestQuiet == SvcQuiet /\ WorkQuiet /\ PipeQuiet

\* The values the tailer's variables keep in a specification without tailer
TailQuiet ==
    /\ disk = [p \in Paths |-> NoFile]
    /\ tailer = [filepath |-> "A", open |-> FALSE, last_position |-> 0]
    /\ t_pc = "idle"
    /\ t_op = "init"
    /\ t_result = <<>>
    /\ t_raised = FALSE
    /\ g2 = G2Off
    /\ g4 = G4Off

\* tailer = FleetLogTailer("A"), the file being absent or present and empty
TailInit ==
    /\ MgrQuiet
    /\ \E there \in BOOLEAN :
          disk = [p \in Paths |->
                     IF p = "A" /\ there
                     THEN [exists |-> TRUE, data |-> <<>>] ELSE NoFile]
    /\ \E ok \in BOOLEAN : tailer = FleetLogTailer("A", disk, ok)
    /\ t_pc = "idle"
    /\ t_op = "init"
    /\ t_result = <<>>
    /\ t_raised = FALSE
    /\ g2 = G2Off
    /\ g4 = G4Off
    /\ TokQuiet
    /\ SessQuiet
    /\ RestQuiet

TheFile == disk[tailer.filepath]

\* The writer appends one unit: a unit of text or a line terminator
ExtAppend ==
    /\ TheFile.exists
    /\ Len(TheFile.data) < MaxFile
    /\ \E c \in {NL, 1} :
          /\ disk' = [disk EXCEPT ![tailer.filepath].data = Append(@, c)]
          /\ g4' = IF g4.st = "trunc" /\ t_pc = "idle"
                   THEN [g4 EXCEPT !.st = IF c = NL THEN "line" ELSE "trunc"]
                   ELSE G4Off
    /\ g2' = G2Ext(TRUE)
    /\ UNCHANGED <<tailer, t_pc, t_op, t_result, t_raised>>
    /\ UNCHANGED <<tokVars, sessVars, svcVars, workVars, pipeVars, mgrVars>>

\* The writer truncates the file (a rotation: the log starts again)
ExtTruncate ==
    /\ TheFile.exists
    /\ \E n \in 0..(Len(TheFile.data) - 1) :
          /\ disk' = [disk EXCEPT ![tailer.filepath].data = SubSeq(@, 1, n)]
          /\ g4' = IF t_pc = "idle" /\ n < tailer.last_position
                   THEN [st |-> "trunc", n |-> n, io |-> FALSE]
                   ELSE G4Off
    /\ g2' = G2Ext(FALSE)
    /\ UNCHANGED <<tailer, t_pc, t_op, t_result, t_raised>>
    /\ UNCHANGED <<tokVars, sessVars, svcVars, workVars, pipeVars, mgrVars>>

\* The file appears, empty
ExtCreate ==
    /\ ~TheFile.exists
    /\ disk' = [disk EXCEPT ![tailer.filepath] = [exists |-> TRUE, data |-> <<>>]]
    /\ g2' = G2Ext(FALSE)
    /\ g4' = G4Off
    /\ UNCHANGED <<tailer, t_pc, t_op, t_result, t_raised>>
    /\ UNCHANGED <<tokVars, sessVars, svcVars, workVars, pipeVars, mgrVars>>

\* The file disappears.  The tailer's open handle keeps the file in place
\* (the handle is opened without delete sharing), so this happens only while
\* the tailer holds no handle.
ExtDelete ==
    /\ TheFile.exists
    /\ ~tailer.open
    /\ disk' = [disk EXCEPT ![tailer.filepath] = NoFile]
    /\ g2' = G2Ext(FALSE)
    /\ g4' = G4Off
    /\ UNCHANGED <<tailer, t_pc, t_op, t_result, t_raised>>
    /\ UNCHANGED <<tokVars, sessVars, svcVars, workVars, pipeVars, mgrVars>>

\* tailer.seek_to_end()
SeekToEnd ==
    /\ t_pc = "idle"
    /\ \E ok \in BOOLEAN : tailer' = seek_to_end(tailer, disk, ok)
    /\ t_op' = "seek_to_end"
    /\ t_result' = <<>>
    /\ t_raised' = FALSE
    /\ g2' = IF TheFile.exists
             THEN [st |-> "seek", base |-> Len(TheFile.data), ok |-> tailer'.open]
             ELSE G2Off
    /\ g4' = G4Off
    /\ UNCHANGED <<disk, t_pc>>
    /\ UNCHANGED <<tokVars, sessVars, svcVars, workVars, pipeVars, mgrVars>>

\* tailer.close()
Close ==
    /\ t_pc = "idle"
    /\ tailer' = close(tailer)
    /\ t_op' = "close"
    /\ t_result' = <<>>
    /\ t_raised' = FALSE
    /\ UNCHANGED <<disk, t_pc, g2, g4>>
    /\ UNCHANGED <<tokVars, sessVars, svcVars, workVars, pipeVars, mgrVars>>

\* tailer.read_last_n_lines(n)
ReadLastN ==
    /\ t_pc = "idle"
    /\ \E n \in 1..MaxHistory, ok \in BOOLEAN :
          t_result' = read_last_n_lines(tailer, disk, n, ok)
    /\ t_op' = "read_last_n_lines"
    /\ t_raised' = FALSE
    /\ UNCHANGED <<disk, tailer, t_pc, g2, g4>>
    /\ UNCHANGED <<tokVars, sessVars, svcVars, workVars, pipeVars, mgrVars>>

\* The effect of one step of read_new_lines with outcome o; ioerr: the step
\* ended the call on an I/O error (a failed open, stat or read)
RnlApply(o, ioerr) ==
    /\ tailer' = o.t
    /\ t_pc' = o.pc
    /\ t_op' = "read_new_lines"
    /\ t_result' = o.ret
    /\ t_raised' = o.raised
    /\ g2' = G2Step(o, ioerr, disk)
    /\ g4' = G4Step(o, ioerr)
    /\ UNCHANGED disk
    /\ UNCHANGED <<tokVars, sessVars, svcVars, workVars, pipeVars, mgrVars>>

\* tailer.read_new_lines() is called: lines 51-57
RnlEnter ==
    /\ t_pc = "idle"
    /\ \E ok \in BOOLEAN :
          LET o == rnl_enter(tailer, disk, ok) IN RnlApply(o, o.pc = "idle")

\* lines 60-65, 67-69
RnlStat ==
    /\ t_pc = "stat"
    /\ \E ok \in BOOLEAN :
          LET o == rnl_stat(tailer, disk, ok) IN RnlApply(o, o.pc = "idle")

\* line 66
RnlReopen ==
    /\ t_pc = "reopen"
    /\ \E ok \in BOOLEAN :
          LET o == rnl_reopen(tailer, disk, ok) IN RnlApply(o, FALSE)

\* lines 72-80
RnlRead ==
    /\ t_pc = "read"
    /\ \E ok \in BOOLEAN :
          LET o == rnl_read(tailer, disk, ok) IN RnlApply(o, tailer.open /\ ~ok)

TailNext ==
    \/ ExtAppend
    \/ ExtTruncate
    \/ ExtCreate
    \/ ExtDelete
    \/ SeekToEnd
    \/ Close
    \/ ReadLastN
    \/ RnlEnter
    \/ RnlStat
    \/ RnlReopen
    \/ RnlRead

SpecTailer == TailInit /\ [][TailNext]_vars

\* The pieces tokenizer inputs are built from: a control character (0x1A), the
\* first C1 control (0x7F), a printable letter, a character above U+009F, and
\* the text of the first placeholder.
Pieces == {<<26>>, <<127>>, <<97>>, <<20013>>, Placeholder(1)}

RECURSIVE Concats(_)
Concats(n) ==
    IF n = 0 THEN {<<>>}
    ELSE LET shorter == Concats(n - 1)
         IN  shorter \cup {s \o p : s \in shorter, p \in Pieces}

Messages == Concats(MaxPieces)

TokInit ==
    /\ MgrQuiet
    /\ tk_pc = "input"
    /\ message \in Messages
    /\ cleaned = <<>>
    /\ tokens = <<>>
    /\ restored = <<>>
    /\ TailQuiet
    /\ SessQuiet
    /\ RestQuiet

\* tokenizer.tokenize(message)
Tokenize ==
    /\ tk_pc = "input"
    /\ tk_pc' = "tokenized"
    /\ cleaned' = tokenize(message).cleaned
    /\ tokens' = tokenize(message).tokens
    /\ UNCHANGED <<message, restored>>
    /\ UNCHANGED <<tailVars, sessVars, svcVars, workVars, pipeVars, mgrVars>>

\* tokenizer.restore(cleaned, tokens)
Restore ==
    /\ tk_pc = "tokenized"
    /\ tk_pc' = "restored"
    /\ restored' = restore(cleaned, tokens)
    /\ UNCHANGED <<message, cleaned, tokens>>
    /\ UNCHANGED <<tailVars, sessVars, svcVars, workVars, pipeVars, mgrVars>>

TokNext == Tokenize \/ Restore

SpecTok == TokInit /\ [][TokNext]_vars

\* C1: restore(tokenize(x).cleaned, tokenize(x).tokens) = x for every text x,
\* also for text that holds the characters placeholders are built from.
C1_RoundTrip == tk_pc = "restored" => restored = message


(***************************************************************************)
(* Claims about the tailer, under SpecTailer.                              *)
(***************************************************************************)
\* A read_new_lines call has just ended (returned or raised)
RnlEnded == t_pc = "idle" /\ t_op = "read_new_lines"

\* The lines appended since the seek_to_end of scenario g2, without terminators
C2_Expected == StripAll(readlines(AppendedSince(g2.base, TheFile.data)))

\* C2 as stated: after any seek_to_end(), when the writer appends N complete
\* lines before the next read_new_lines(), that call returns exactly those N
\* lines without their terminators, and a further call with no write in
\* between returns the empty list.
C2_AfterSeekReadsExactlyNew ==
    /\ (RnlEnded /\ g2.st = "read1") => (~t_raised /\ t_result = C2_Expected)
    /\ (RnlEnded /\ g2.st = "read2") => (~t_raised /\ t_result = <<>>)

\* C2 amended: the same, for a seek_to_end() that left the tailer with an
\* open handle and for read_new_lines() calls that end on no I/O error.
C2_AfterOpenSeekReadsExactlyNew ==
    /\ (RnlEnded /\ g2.st = "read1" /\ g2.ok)
           => (~t_raised /\ t_result = C2_Expected)
    /\ (RnlEnded /\ g2.st = "read2" /\ g2.ok)
           => (~t_raised /\ t_result = <<>>)

\* C2 witness: the read after the seek returned two appended lines
C2_Witness ==
    RnlEnded /\ g2.st = "read1" /\ g2.ok /\ Len(t_result) = 2 /\ g2.base > 0

\* The read_new_lines step that saw a size below the cursor and reset it
TruncationReset ==
    /\ t_pc = "stat"
    /\ TheFile.exists
    /\ Len(TheFile.data) < tailer.last_position
    /\ tailer'.last_position = 0

\* C3 as stated: last_position never decreases, except in a read_new_lines
\* step that saw the file size below the cursor, which resets it to zero.
C3_CursorMonotonic ==
    [][tailer'.last_position >= tailer.last_position \/ TruncationReset]_vars

\* C3 amended: ... or in a seek_to_end() call made after the file shrank
\* below the cursor, which sets the cursor to the current end of the file.
C3_CursorMonotonicOrSeek ==
    [][\/ tailer'.last_position >= tailer.last_position
       \/ TruncationReset
       \/ /\ t_pc = "idle"
          /\ t_op' = "seek_to_end"
          /\ TheFile.exists
          /\ tailer'.last_position = Len(TheFile.data)]_vars

\* C3 witness: read_new_lines has reset a positive cursor after a truncation
\* that left text in the file
C3_Witness ==
    t_pc = "reopen" /\ tailer.last_position = 0 /\ Len(TheFile.data) > 0

\* The line appended after the truncation of scenario g4
C4_NewLine == rstrip(AppendedSince(g4.n, TheFile.data))

\* C4: after a truncation below the cursor and one new complete line, the
\* next read_new_lines() returns a list that contains that line and does
\* not raise (stated for the calls that end on no I/O error, which return
\* the empty list by design).
C4_TruncateThenLineIsRead ==
    (RnlEnded /\ g4.st = "read" /\ ~g4.io)
        => (~t_raised /\ \E i \in 1..Len(t_result) : t_result[i] = C4_NewLine)

\* C5: read_new_lines() returns only complete lines: what it returns was
\* terminated in the file when it was read.
C5_OnlyCompleteLines ==
    [][(t_pc = "read" /\ t_pc' = "idle" /\ t_result' # <<>>)
          => CompleteLines(AppendedSince(tailer.last_position, TheFile.data))]_vars

\* C6: read_new_lines() never raises.
C6_NeverRaises == ~t_raised

(***************************************************************************)
(* ChatSession (src/core/session.py), the overlay's message list           *)
(* (src/gui/overlay.py), the worker's process_lines and the manager's      *)
(* _route_message (src/main.py).  A session method runs to completion on   *)
(* the GUI thread, so each is one action; lines_ready and message_ready    *)
(* are queued signals, so each is a FIFO queue.  The log writer appends    *)
(* whole lines, each one text unit and its terminator; the units of a file *)
(* increase in the order they are appended.                                *)
(***************************************************************************)

\* time.time() - mtime < 1800
FreshLimit == 1800

\* len(self.chat_history) > 100
HistoryCap == 100

\* Ages a file is seen at: just written, and as old as the limit
AgeSteps == <<0, FreshLimit>>

\* Lines the writer appends to one file
MaxLines == 2

\* Tailing periods (start() and switch_fleet_log() calls that ran)
MaxRuns == 2

\* lines_ready batches waiting for the worker
MaxQueue == 2

\* message_ready events waiting for the manager
MaxPending == 2

\* Entries kept in the overlay's list in the model
MaxChat == 3

\* polling_interval values, in seconds
Intervals == {1, 2}

\* fleet_history_lines values: no backfill, and the longest backfill
HistoryChoices == {0, MaxHistory}

Abs(x) == IF x < 0 THEN -x ELSE x

\* The text unit of the i-th line written to a path, and the path of a unit
UnitOf(path, i) == IF path = "A" THEN i ELSE 10 + i

SourceOf(unit) == IF unit > 10 THEN "B" ELSE "A"

LinesIn(data) == Len(MessageLinesFrom(readlines(data), 1))

\* The welcome message the overlay adds to its list when it is constructed
Welcome == [text |-> <<>>, run |-> 0]

\* The whole of read_new_lines on an unchanging file; ok: which of its
\* open, stat, reopen and read succeed
read_new_lines(t, d, ok) ==
    LET o1 == rnl_enter(t, d, ok[1])
    IN  IF o1.pc = "idle" THEN o1
        ELSE LET o2 == rnl_stat(o1.t, d, ok[2])
             IN  IF o2.pc = "idle" THEN o2
                 ELSE IF o2.pc = "reopen"
                      THEN rnl_read(rnl_reopen(o2.t, d, ok[3]).t, d, ok[4])
                      ELSE rnl_read(o2.t, d, ok[4])

\* The history backfill of start() and switch_fleet_log(): what is called
\* and the batch emitted if any; okStat: stat does not raise OSError
backfill(t, d, a, cfg, okStat, okRead) ==
    LET history_lines == cfg.fleet_history_lines
        none == [calls |-> <<>>, emitted |-> <<>>]
        stale == [calls |-> <<"stat">>, emitted |-> <<>>]
        failed == [calls |-> <<"stat", "OSError">>, emitted |-> <<>>]
    IN  IF history_lines > 0
        THEN IF d[t.filepath].exists /\ okStat
             THEN IF a[t.filepath] < FreshLimit
                  THEN LET last_lines == read_last_n_lines(t, d, history_lines, okRead)
                       IN  [calls |-> IF last_lines # <<>>
                                      THEN <<"stat", "read_last_n_lines", "emit">>
                                      ELSE <<"stat", "read_last_n_lines">>,
                            emitted |-> IF last_lines # <<>>
                                        THEN <<last_lines>> ELSE <<>>]
                  ELSE stale
             ELSE failed
        ELSE none

\* OverlayWindow.add_message
add_message(history, isVisible, msg) ==
    LET appended == Append(history, msg)
    IN  IF ~isVisible THEN appended
        ELSE IF Len(appended) > HistoryCap THEN Tail(appended)
        ELSE appended

\* OverlayWindow.clear_messages: the list is emptied, then self.layout, which
\* is QWidget's layout method and not a layout object, has no count
\* attribute and the call raises AttributeError
clear_messages(history) == [chat_history |-> <<>>, raised |-> TRUE]

RECURSIVE ParsedFrom(_, _, _)
\* LogProcessingWorker._process_single_line for the lines kept by the parser
ParsedFrom(lines, r, i) ==
    IF i > Len(lines) THEN <<>>
    ELSE IF IsMessageLine(lines[i])
         THEN <<[text |-> lines[i], run |-> r]>> \o ParsedFrom(lines, r, i + 1)
         ELSE ParsedFrom(lines, r, i + 1)

\* A worker that takes the lines of a batch last first
process_lines_reversed(batch) ==
    LET n == Len(batch.lines)
    IN  ParsedFrom([i \in 1..n |-> batch.lines[n + 1 - i]], batch.run, 1)

\* LogProcessingWorker.process_lines: the message_ready events of one batch
process_lines(batch) == ParsedFrom(batch.lines, batch.run, 1)

\* update_config restarts the timer whether or not the session is running
restarts_timer_when_stopped(running, old_interval, new_interval) ==
    Abs(new_interval - old_interval) * 100 > 1

\* update_config: self.is_running and abs(new_interval - old_interval) > 0.01
restarts_timer(running, old_interval, new_interval) ==
    running /\ Abs(new_interval - old_interval) * 100 > 1

Batch(lines, r) == [lines |-> lines, run |-> r]

Batches(emitted, r) == [i \in 1..Len(emitted) |-> Batch(emitted[i], r)]

\* What no action of the session specification touches
SessFrame ==
    UNCHANGED <<tokVars, t_pc, t_op, t_result, t_raised, g2, g4,
                svcVars, workVars, pipeVars, mgrVars>>

\* ChatSession("fleet", "A", config): the tailer opens the file if it can,
\* the overlay holds its welcome message and is not shown
SessInit ==
    /\ MgrQuiet
    /\ TokQuiet
    /\ RestQuiet
    /\ disk = [p \in Paths |-> IF p = "A" THEN [exists |-> TRUE, data |-> <<>>]
                                          ELSE NoFile]
    /\ \E ok \in BOOLEAN : tailer = FleetLogTailer("A", disk, ok)
    /\ t_pc = "idle"
    /\ t_op = "init"
    /\ t_result = <<>>
    /\ t_raised = FALSE
    /\ g2 = G2Off
    /\ g4 = G4Off
    /\ age = [p \in Paths |-> 0]
    /\ log_path = "A"
    /\ is_running = FALSE
    /\ timer_active = FALSE
    /\ \E h \in HistoryChoices :
           config = [fleet_history_lines |-> h, polling_interval |-> 1]
    /\ chat_history = add_message(<<>>, FALSE, Welcome)
    /\ visible = FALSE
    /\ workq = <<>>
    /\ routeq = <<>>
    /\ s_calls = <<>>
    /\ run = 0
    /\ synced = {}

\* The game client creates a log file
CreateLog(p) ==
    /\ ~disk[p].exists
    /\ disk' = [disk EXCEPT ![p] = [exists |-> TRUE, data |-> <<>>]]
    /\ age' = [age EXCEPT ![p] = 0]
    /\ UNCHANGED <<tailer, log_path, is_running, timer_active, config,
                   chat_history, visible, workq, routeq, s_calls, run, synced>>
    /\ SessFrame

\* The game client appends one whole line
WriteLine(p) ==
    /\ disk[p].exists
    /\ LinesIn(disk[p].data) < MaxLines
    /\ disk' = [disk EXCEPT ![p].data =
                    @ \o <<UnitOf(p, LinesIn(disk[p].data) + 1), NL>>]
    /\ age' = [age EXCEPT ![p] = 0]
    /\ UNCHANGED <<tailer, log_path, is_running, timer_active, config,
                   chat_history, visible, workq, routeq, s_calls, run, synced>>
    /\ SessFrame

\* Time passes without a write to the file
Elapse(p) ==
    /\ disk[p].exists
    /\ \E k \in 1..(Len(AgeSteps) - 1) :
           /\ age[p] = AgeSteps[k]
           /\ age' = [age EXCEPT ![p] = AgeSteps[k + 1]]
    /\ UNCHANGED <<disk, tailer, log_path, is_running, timer_active, config,
                   chat_history, visible, workq, routeq, s_calls, run, synced>>
    /\ SessFrame

\* start() lines 73-91 and switch_fleet_log() lines 158-176: the backfill,
\* then seek_to_end
backfill_and_seek(t, d, a, cfg, okStat, okRead, okSeek) ==
    LET bf == backfill(t, d, a, cfg, okStat, okRead)
    IN  [tailer |-> seek_to_end(t, d, okSeek),
         emitted |-> bf.emitted,
         calls |-> bf.calls \o <<"seek_to_end">>]

\* ChatSession.start()
Start ==
    /\ IF is_running
       THEN UNCHANGED <<tailer, is_running, timer_active, visible, workq,
                        s_calls, run, synced>>
       ELSE \E okStat, okRead, okSeek \in BOOLEAN :
              LET b == backfill_and_seek(tailer, disk, age, config,
                                         okStat, okRead, okSeek)
              IN  /\ run < MaxRuns
                  /\ Len(workq) + Len(b.emitted) <= MaxQueue
                  /\ run' = run + 1
                  /\ synced' = IF b.emitted = <<>> \/ b.tailer.open
                               THEN synced \cup {run'} ELSE synced
                  /\ workq' = workq \o Batches(b.emitted, run')
                  /\ tailer' = b.tailer
                  /\ visible' = TRUE
                  /\ timer_active' = TRUE
                  /\ is_running' = TRUE
                  /\ s_calls' = b.calls \o <<"show", "timer_start">>
    /\ UNCHANGED <<disk, age, log_path, config, chat_history, routeq>>
    /\ SessFrame

\* ChatSession.stop()
Stop ==
    /\ IF ~is_running
       THEN UNCHANGED <<tailer, is_running, timer_active, visible>>
       ELSE /\ timer_active' = FALSE
            /\ tailer' = close(tailer)
            /\ visible' = FALSE
            /\ is_running' = FALSE
    /\ UNCHANGED <<disk, age, log_path, config, chat_history, workq, routeq,
                   s_calls, run, synced>>
    /\ SessFrame

\* ChatSession.switch_fleet_log(new_log_path, listener_name).  The call
\* ends at overlay.clear_messages() when that raises: nothing after line 155
\* runs, and the exception leaves through the caller.
SwitchFleetLog(new_log_path) ==
    /\ IF ~is_running
       THEN UNCHANGED <<tailer, log_path, timer_active, chat_history, workq,
                        s_calls, run, synced>>
       ELSE \E okOpen \in BOOLEAN :
              LET t1 == FleetLogTailer(new_log_path, disk, okOpen)
                  cleared == clear_messages(chat_history)
                  first == <<"timer_stop", "close", "FleetLogTailer",
                             "clear_messages">>
              IN  /\ run < MaxRuns
                  /\ run' = run + 1
                  /\ log_path' = new_log_path
                  /\ chat_history' = cleared.chat_history
                  /\ IF cleared.raised
                     THEN /\ timer_active' = FALSE
                          /\ tailer' = t1
                          /\ workq' = workq
                          /\ s_calls' = first
                          /\ synced' = synced \cup {run'}
                     ELSE \E okStat, okRead, okSeek \in BOOLEAN :
                            LET b == backfill_and_seek(t1, disk, age, config,
                                                       okStat, okRead, okSeek)
                            IN  /\ Len(workq) + Len(b.emitted) <= MaxQueue
                                /\ timer_active' = TRUE
                                /\ tailer' = b.tailer
                                /\ workq' = workq \o Batches(b.emitted, run')
                                /\ s_calls' = first \o b.calls \o <<"timer_start">>
                                /\ synced' = IF b.emitted = <<>> \/ b.tailer.open
                                             THEN synced \cup {run'}
                                             ELSE synced
    /\ UNCHANGED <<disk, age, is_running, config, visible, routeq>>
    /\ SessFrame

\* ChatSession.update_config(new_config)
UpdateConfig(new_interval, new_history) ==
    /\ config' = [fleet_history_lines |-> new_history,
                  polling_interval |-> new_interval]
    /\ timer_active' = IF restarts_timer(is_running, config.polling_interval,
                                          new_interval)
                       THEN TRUE ELSE timer_active
    /\ UNCHANGED <<disk, age, tailer, log_path, is_running, chat_history,
                   visible, workq, routeq, s_calls, run, synced>>
    /\ SessFrame

\* ChatSession._poll_log(), the slot of the poll timer.  An exception of
\* read_new_lines leaves the slot, and nothing is emitted.
Poll ==
    /\ timer_active
    /\ \E okOpen, okStat, okRead \in BOOLEAN :
          LET o == read_new_lines(tailer, disk,
                                  <<okOpen, okStat, okOpen, okRead>>)
              emits == ~o.raised /\ o.ret # <<>>
          IN  /\ emits => Len(workq) < MaxQueue
              /\ tailer' = o.t
              /\ workq' = IF emits THEN Append(workq, Batch(o.ret, run))
                          ELSE workq
    /\ UNCHANGED <<disk, age, log_path, is_running, timer_active, config,
                   chat_history, visible, routeq, s_calls, run, synced>>
    /\ SessFrame

\* The worker thread takes the next lines_ready batch
ProcessLines ==
    /\ workq # <<>>
    /\ Len(routeq) + Len(process_lines(Head(workq))) <= MaxPending
    /\ routeq' = routeq \o process_lines(Head(workq))
    /\ workq' = Tail(workq)
    /\ UNCHANGED <<disk, age, tailer, log_path, is_running, timer_active,
                   config, chat_history, visible, s_calls, run, synced>>
    /\ SessFrame

\* TranslatorManager._route_message for the next message_ready event
RouteMessage ==
    /\ routeq # <<>>
    /\ Len(chat_history) < MaxChat
    /\ chat_history' = add_message(chat_history, visible, Head(routeq))
    /\ routeq' = Tail(routeq)
    /\ UNCHANGED <<disk, age, tailer, log_path, is_running, timer_active,
                   config, visible, workq, s_calls, run, synced>>
    /\ SessFrame

SessNext ==
    \/ \E p \in Paths : CreateLog(p)
    \/ \E p \in Paths : WriteLine(p)
    \/ \E p \in Paths : Elapse(p)
    \/ Start
    \/ Stop
    \/ \E p \in Paths : SwitchFleetLog(p)
    \/ \E iv \in Intervals, h \in HistoryChoices : UpdateConfig(iv, h)
    \/ Poll
    \/ ProcessLines
    \/ RouteMessage

SpecSession == SessInit /\ [][SessNext]_vars

(***************************************************************************)
(* Claims about the session.                                               *)
(***************************************************************************)

\* The entries of the overlay's list that came from a log line
IsLogMessage(m) == m.text # <<>>

SameSource(m1, m2) == SourceOf(m1.text[1]) = SourceOf(m2.text[1])

C8_StoppedIsQuiet ==
    (run > 0 /\ ~is_running)
    => (~timer_active /\ ~tailer.open /\ ~ENABLED Poll)

\* A session stopped after a start, a switch to the other log and a change
\* of the polling interval
C8_Witness ==
    /\ run > 1
    /\ ~is_running
    /\ log_path = "B"
    /\ config.polling_interval = 2

\* C9: switch_fleet_log() on a Stopped session changes nothing (log_path,
\* tailer, timer, is_running, overlay list, emitted batches); on a Running
\* session it leaves the session Running and tailing the new path: the
\* tailer is on that path and the poll timer is active.
C9_SwitchOnlyWhileRunning ==
    [][\A p \in Paths :
          SwitchFleetLog(p) =>
              IF ~is_running
              THEN UNCHANGED <<log_path, tailer, timer_active, is_running,
                               chat_history, workq>>
              ELSE /\ is_running'
                   /\ timer_active'
                   /\ log_path' = p
                   /\ tailer'.filepath = p]_vars

Called(name) == \E k \in 1..Len(s_calls) : s_calls[k] = name

Before(n1, n2) ==
    \A k1, k2 \in 1..Len(s_calls) :
        (s_calls[k1] = n1 /\ s_calls[k2] = n2) => k1 < k2

\* C10: a start() or switch_fleet_log() that runs calls
\* read_last_n_lines(fleet_history_lines) exactly when fleet_history_lines
\* is positive and the file is less than 1800 s old (and stat did not
\* raise), emits the non-empty result as one batch, and always calls
\* seek_to_end, after the backfill and before the timer is started.
C10_BackfillThenSeek ==
    [][run' = run + 1 =>
          LET h == config.fleet_history_lines
              fresh == /\ h > 0
                       /\ disk[log_path'].exists
                       /\ age[log_path'] < FreshLimit
              last_lines == read_last_n_lines(tailer', disk, h, TRUE)
          IN  /\ Called("read_last_n_lines")' => fresh
              /\ (fresh /\ ~Called("OSError")') => Called("read_last_n_lines")'
              /\ Called("emit")' => /\ Called("read_last_n_lines")'
                                    /\ workq' = Append(workq, Batch(last_lines, run'))
              /\ ~Called("emit")' => workq' = workq
              /\ Called("seek_to_end")'
              /\ Called("timer_start")'
              /\ Before("read_last_n_lines", "seek_to_end")'
              /\ Before("emit", "seek_to_end")'
              /\ Before("seek_to_end", "timer_start")']_vars

(***************************************************************************)
(* The shared worker (LogProcessingWorker, src/main.py) on its QThread.    *)
(* The texts are kept symbolic: an event names the line it is about and    *)
(* which text of that line it carries.  What the detector decides, what    *)
(* the provider answers and whether a stage raises are inputs.             *)
(***************************************************************************)

\* Lines of one lines_ready batch in the worker specification
MaxBatch == 2

\* lines_ready batches queued at the start of the worker specification
MaxBatches == 2

SessionIds == {"fleet", "local"}

\* The lines a batch is made of: an empty line and two message lines
LineKinds == {<<>>, <<1>>, <<2>>}

\* deepl_api_key values: absent, blank, set, set with blanks around it
ApiKeys == {<<>>, <<32>>, <<107>>, <<32, 107, 32>>}

IsSpace(c) == c = 32 \/ (9 <= c /\ c <= 13)

RECURSIVE lstrip(_)
lstrip(s) ==
    IF s # <<>> /\ IsSpace(s[1]) THEN lstrip(Tail(s)) ELSE s

RECURSIVE rstrip_space(_)
rstrip_space(s) ==
    IF s # <<>> /\ IsSpace(s[Len(s)])
    THEN rstrip_space(SubSeq(s, 1, Len(s) - 1))
    ELSE s

\* str.strip()
strip(s) == rstrip_space(lstrip(s))

\* A worker thread that starts a slot while another one is running
can_start_in_parallel(running) == TRUE

\* The worker's thread runs one queued slot at a time
can_start(running) == running = {}

\* self.signals.message_ready.emit(session_id, final_text, sender,
\* timestamp, original, is_translated): shown names the text carried
Event(sid, line, shown, original, is_translated) ==
    [sid |-> sid, line |-> line, shown |-> shown, original |-> original,
     is_translated |-> is_translated]

\* The process_lines call a, its current line done: the next line, or the end
Advance(running, a) ==
    IF a.i < Len(a.lines)
    THEN (running \ {a}) \cup {[a EXCEPT !.i = a.i + 1, !.stage = "line"]}
    ELSE running \ {a}

\* process_lines where an exception of one line ends the batch
after_exception_batch_ends(running, a) == running \ {a}

\* process_lines, lines 110-111: the exception of a line is caught and
\* printed, and the loop goes on
after_exception(running, a) == Advance(running, a)

\* The is_translated flag of the event emitted after translate_message
\* returned (main.py:153-156): True, whatever success is
flag_after_translate(success) == TRUE

Trace(a, outcome) == [sid |-> a.sid, line |-> a.lines[a.i], outcome |-> outcome]

\* LineParser.parse: None for a line that is not a chat message
parses(line) == line # <<>>

\* TranslationService.set_config: a new glossary is loaded when the target
\* language differs from the one of the glossary in use
set_config(svc, new_config) ==
    LET target_lang == IF "target_language" \in DOMAIN new_config
                       THEN new_config.target_language ELSE "en"
    IN  IF target_lang # svc.glossary
        THEN [svc EXCEPT !.glossary = target_lang]
        ELSE svc

\* update_config where a blank key leaves the DeepL provider in place
update_config_keeps_deepl(svc, new_config) ==
    LET deepl_key == strip(new_config.deepl_api_key)
        s == set_config(svc, new_config)
    IN  [config |-> new_config,
         service |-> IF deepl_key # <<>>
                     THEN IF s.provider # "DeepL"
                          THEN [s EXCEPT !.provider = "DeepL",
                                         !.api_key = deepl_key]
                          ELSE s
                     ELSE s]

\* LogProcessingWorker.update_config: the configuration is replaced, the
\* service reloads its glossary, and the provider of the one
\* TranslationService is exchanged when its kind has to change: a
\* DeepLProvider(deepl_key), or a GoogleTransProvider()
update_config(svc, new_config) ==
    LET deepl_key == strip(new_config.deepl_api_key)
        s == set_config(svc, new_config)
    IN  [config |-> new_config,
         service |->
            IF deepl_key # <<>>
            THEN IF s.provider # "DeepL"
                 THEN [s EXCEPT !.provider = "DeepL", !.api_key = deepl_key]
                 ELSE s
            ELSE IF s.provider # "Google"
                 THEN [s EXCEPT !.provider = "Google", !.api_key = <<>>]
                 ELSE s]

\* The variables of the other components that the worker leaves alone
tailRest == <<tailer, t_pc, t_op, t_result, t_raised, g2, g4>>

sessRest == <<age, log_path, is_running, timer_active, config, chat_history,
              visible, s_calls, run, synced>>

TailIdle ==
    /\ tailer = [filepath |-> "A", open |-> FALSE, last_position |-> 0]
    /\ t_pc = "idle"
    /\ t_op = "init"
    /\ t_result = <<>>
    /\ t_raised = FALSE
    /\ g2 = G2Off
    /\ g4 = G4Off

SessIdle ==
    /\ age = [p \in Paths |-> 0]
    /\ log_path = "A"
    /\ is_running = FALSE
    /\ timer_active = FALSE
    /\ config = [fleet_history_lines |-> 0, polling_interval |-> 1]
    /\ chat_history = <<>>
    /\ visible = FALSE
    /\ s_calls = <<>>
    /\ run = 0
    /\ synced = {}

WorkFrame == UNCHANGED <<tokVars, tailRest, sessRest, svcVars, mgrVars>>

\* A queued process_lines(session_id, lines) call starts on the worker thread
WorkerTake ==
    /\ workq # <<>>
    /\ can_start(active)
    /\ active' = active \cup {[sid |-> Head(workq).sid,
                               lines |-> Head(workq).lines,
                               i |-> 1, stage |-> "line"]}
    /\ workq' = Tail(workq)
    /\ UNCHANGED <<disk, routeq, service, w_config, w_trace, sessions, tick,
                   p_trace, gui>>
    /\ WorkFrame

\* The GUI thread, when the slot it waited for has returned
GuiAfter(running) ==
    IF gui = "emit" /\ running = {} THEN "idle" ELSE gui

\* _process_single_line up to the translate_message call: parse, tokenize,
\* should_translate, and the emit of a message that is not to be translated
WorkerLine(a) ==
    /\ a \in active
    /\ a.stage = "line"
    /\ \E raises, wanted \in BOOLEAN :
          LET line == a.lines[a.i]
          IN  IF raises
              THEN /\ active' = after_exception(active, a)
                   /\ w_trace' = Trace(a, "raised")
                   /\ routeq' = routeq
              ELSE IF ~parses(line)
              THEN /\ active' = Advance(active, a)
                   /\ w_trace' = Trace(a, "skipped")
                   /\ routeq' = routeq
              ELSE IF ~wanted
              THEN /\ active' = Advance(active, a)
                   /\ w_trace' = Trace(a, "plain")
                   /\ routeq' = Append(routeq,
                          Event(a.sid, line, "cleaned", "none", FALSE))
              ELSE /\ active' = (active \ {a}) \cup
                                    {[a EXCEPT !.stage = "translate"]}
                   /\ w_trace' = w_trace
                   /\ routeq' = routeq
    /\ gui' = GuiAfter(active')
    /\ UNCHANGED <<disk, workq, service, w_config, sessions, tick, p_trace>>
    /\ WorkFrame

\* translate_message returns (or something after it raises), and the rest of
\* _process_single_line: the restore and the emit
WorkerTranslated(a) ==
    /\ a \in active
    /\ a.stage = "translate"
    /\ \E answer \in {"text", "none", "raise"} :
          LET line == a.lines[a.i]
              success == answer = "text"
          IN  IF answer = "raise"
              THEN /\ active' = after_exception(active, a)
                   /\ w_trace' = Trace(a, "raised")
                   /\ routeq' = routeq
              ELSE /\ active' = Advance(active, a)
                   /\ w_trace' = Trace(a, IF success THEN "translated"
                                                     ELSE "failed")
                   /\ routeq' = Append(routeq,
                          Event(a.sid, line,
                                IF success THEN "translated" ELSE "cleaned",
                                "cleaned", flag_after_translate(success)))
    /\ gui' = GuiAfter(active')
    /\ UNCHANGED <<disk, workq, service, w_config, sessions, tick, p_trace>>
    /\ WorkFrame

\* worker.update_config(config['shared']), called by the manager on its own
\* thread, whatever the worker thread is doing
UpdateWorkerConfig(key) ==
    /\ LET o == update_config(service, [deepl_api_key |-> key])
       IN  /\ service' = o.service
           /\ w_config' = o.config
    /\ UNCHANGED <<disk, workq, routeq, active, w_trace, sessions, tick,
                   p_trace, gui>>
    /\ WorkFrame

\* TranslatorManager._route_message takes the next message_ready event
RouteEvent ==
    /\ routeq # <<>>
    /\ routeq' = Tail(routeq)
    /\ UNCHANGED <<disk, workq, service, w_config, active, w_trace, sessions,
                   tick, p_trace, gui>>
    /\ WorkFrame

BatchLines == UNION {[1..n -> LineKinds] : n \in 1..MaxBatch}

WorkBatches == {[sid |-> sid, lines |-> ls] : sid \in SessionIds, ls \in BatchLines}

WorkerInit ==
    /\ MgrQuiet
    /\ TokQuiet
    /\ TailIdle
    /\ SessIdle
    /\ SvcQuiet
    /\ PipeQuiet
    /\ disk = [p \in Paths |-> NoFile]
    /\ workq \in UNION {[1..n -> WorkBatches] : n \in 1..MaxBatches}
    /\ routeq = <<>>
    /\ service = GoogleService
    /\ w_config = [deepl_api_key |-> <<>>]
    /\ active = {}
    /\ w_trace = <<>>

WorkerNext ==
    \/ WorkerTake
    \/ \E a \in active : WorkerLine(a)
    \/ \E a \in active : WorkerTranslated(a)
    \/ \E key \in ApiKeys : UpdateWorkerConfig(key)

SpecWorker == WorkerInit /\ [][WorkerNext]_vars

\* The process_lines call a has just finished its current line with outcome
Finished(a, outcome) ==
    /\ a \in active
    /\ a \notin active'
    /\ w_trace' = Trace(a, outcome)
    /\ [a EXCEPT !.stage = "translate"] \notin active' \ active

\* The step appends exactly one message_ready event, for the line of a
EmitsOneFor(a) ==
    /\ Len(routeq') = Len(routeq) + 1
    /\ SubSeq(routeq', 1, Len(routeq)) = routeq
    /\ routeq'[Len(routeq')].sid = a.sid
    /\ routeq'[Len(routeq')].line = a.lines[a.i]

\* C13: when the provider fails for a message, the worker emits exactly one
\* message_ready event for it, and that event carries the untranslated text
\* with is_translated = false.
C13_FailedTranslationIsFlaggedUntranslated ==
    [][\A a \in active :
          Finished(a, "failed") =>
              /\ EmitsOneFor(a)
              /\ routeq'[Len(routeq')].shown = "cleaned"
              /\ routeq'[Len(routeq')].is_translated = FALSE]_vars

\* C16: after any sequence of update_config calls the provider of the
\* service is DeepL exactly when the deepl_api_key supplied last is not
\* empty once trimmed, and Google otherwise; the exchange is part of the
\* update_config call, on the same worker and the same service.
C16_ProviderFollowsKey ==
    (service.provider = "DeepL") <=> (strip(w_config.deepl_api_key) # <<>>)

C16_Witness ==
    /\ service.provider = "DeepL"
    /\ w_config.deepl_api_key = <<32, 107, 32>>

\* C17: a failure is absorbed per message.  When a line raises, no event is
\* emitted for it and the batch goes on with its next line; every line that
\* is parsed and does not raise gets exactly one event; the lines of a batch
\* are taken one by one, in batch order, and a batch ends after its last line.
C17_FailureAbsorbedPerLine ==
    [][\A a \in active :
          /\ Finished(a, "raised") =>
                /\ routeq' = routeq
                /\ a.i < Len(a.lines) =>
                      [a EXCEPT !.i = a.i + 1, !.stage = "line"] \in active'
          /\ \A outcome \in {"plain", "translated", "failed"} :
                Finished(a, outcome) =>
                    /\ EmitsOneFor(a)
                    /\ a.i < Len(a.lines) =>
                          [a EXCEPT !.i = a.i + 1, !.stage = "line"] \in active'
          /\ a \notin active' =>
                \/ [a EXCEPT !.stage = "translate"] \in active'
                \/ [a EXCEPT !.i = a.i + 1, !.stage = "line"] \in active'
                \/ a.i = Len(a.lines)]_vars

\* The first line of a batch raised, and the worker is at its second line
C17_Witness ==
    \E a \in active :
        /\ a.i = 2
        /\ a.stage = "translate"
        /\ w_trace = Trace([a EXCEPT !.i = 1, !.stage = "line"], "raised")

(***************************************************************************)
(* The manager's sessions on the GUI thread, feeding the shared worker.    *)
(* Each session tails its own log file; lines_ready is connected to        *)
(* worker.process_lines across threads, so a batch is queued for the       *)
(* worker thread and the emit returns.                                     *)
(***************************************************************************)

\* Lines written to each log file in the pipeline specification
PipeLines == 1

\* _get_log_path: the log file of a session
PathOf(sid) == IF sid = "fleet" THEN "A" ELSE "B"

NoSession(sid) ==
    [started |-> FALSE, timer_active |-> FALSE,
     tailer |-> [filepath |-> PathOf(sid), open |-> FALSE, last_position |-> 0]]

\* An emit that waits until the connected slot has returned
emit_waits_for_slot == TRUE

\* lines_ready.emit towards the worker's thread: FALSE, the call is queued
emit_blocks == FALSE

\* _poll_log that emits whatever read_new_lines returned
emits_batch_always(new_lines) == TRUE

\* _poll_log: "if new_lines:"
emits_batch(new_lines) == new_lines # <<>>

\* What the worker thread is doing: "idle", or the stage of its current line
WorkerStage ==
    IF active = {} THEN "idle" ELSE (CHOOSE a \in active : TRUE).stage

PipeFrame ==
    UNCHANGED <<tokVars, tailRest, sessRest, svcVars, mgrVars, service, w_config>>

PipeInit ==
    /\ MgrQuiet
    /\ TokQuiet
    /\ TailIdle
    /\ SessIdle
    /\ SvcQuiet
    /\ disk = [p \in Paths |-> [exists |-> TRUE, data |-> <<>>]]
    /\ workq = <<>>
    /\ routeq = <<>>
    /\ service = GoogleService
    /\ w_config = [deepl_api_key |-> <<>>]
    /\ active = {}
    /\ w_trace = <<>>
    /\ sessions = [sid \in SessionIds |-> NoSession(sid)]
    /\ gui = "idle"
    /\ tick = 0
    /\ p_trace = <<>>

\* The game client appends a line to a log file
PipeWrite(p) ==
    /\ LinesIn(disk[p].data) < PipeLines
    /\ disk' = [disk EXCEPT ![p].data =
                    @ \o <<UnitOf(p, LinesIn(disk[p].data) + 1), NL>>]
    /\ UNCHANGED <<workq, routeq, active, w_trace, sessions, gui, tick, p_trace>>
    /\ PipeFrame

\* TranslatorManager.start_session: a ChatSession on the session's log,
\* connected to the worker, and started
StartSession(sid) ==
    /\ gui = "idle"
    /\ ~sessions[sid].started
    /\ \E okOpen, okStat, okRead, okSeek \in BOOLEAN :
          LET t == FleetLogTailer(PathOf(sid), disk, okOpen)
              cfg == [fleet_history_lines |-> MaxHistory, polling_interval |-> 1]
              b == backfill_and_seek(t, disk, age, cfg, okStat, okRead, okSeek)
              out == [i \in 1..Len(b.emitted) |->
                         [sid |-> sid, lines |-> b.emitted[i]]]
          IN  /\ sessions' = [sessions EXCEPT ![sid] =
                     [started |-> TRUE, timer_active |-> TRUE, tailer |-> b.tailer]]
              /\ workq' = workq \o out
              /\ gui' = IF out # <<>> /\ emit_blocks THEN "emit" ELSE "idle"
    /\ UNCHANGED <<disk, routeq, active, w_trace, tick, p_trace>>
    /\ PipeFrame

\* ChatSession._poll_log of session sid, on a timeout of its poll_timer
PollLog(sid) ==
    /\ gui = "idle"
    /\ sessions[sid].timer_active
    /\ \E okOpen, okStat, okRead \in BOOLEAN :
          LET o == read_new_lines(sessions[sid].tailer, disk,
                                  <<okOpen, okStat, okOpen, okRead>>)
              emits == ~o.raised /\ emits_batch(o.ret)
          IN  /\ sessions' = [sessions EXCEPT ![sid].tailer = o.t]
              /\ workq' = IF emits
                          THEN Append(workq, [sid |-> sid, lines |-> o.ret])
                          ELSE workq
              /\ gui' = IF emits /\ emit_blocks THEN "emit" ELSE "idle"
              /\ p_trace' = [sid |-> sid, calls |-> <<"read_new_lines">>,
                             result |-> o.ret, raised |-> o.raised,
                             worker |-> WorkerStage]
    /\ tick' = 1 - tick
    /\ UNCHANGED <<disk, routeq, active, w_trace>>
    /\ PipeFrame

PipeNext ==
    \/ \E p \in Paths : PipeWrite(p)
    \/ \E sid \in SessionIds : StartSession(sid)
    \/ \E sid \in SessionIds : PollLog(sid)
    \/ WorkerTake
    \/ \E a \in active : WorkerLine(a)
    \/ \E a \in active : WorkerTranslated(a)
    \/ RouteEvent

SpecPipe == PipeInit /\ [][PipeNext]_vars

\* C11: a poll tick of a session makes exactly one read_new_lines call, and
\* it queues exactly one lines_ready batch, tagged with the session's id and
\* holding the lines returned, if and only if that result is not empty.
C11_OneReadOneBatchPerTick ==
    [][tick' # tick =>
          /\ p_trace'.calls = <<"read_new_lines">>
          /\ IF p_trace'.result # <<>>
             THEN workq' = Append(workq, [sid |-> p_trace'.sid,
                                          lines |-> p_trace'.result])
             ELSE workq' = workq]_vars

C11_Witness ==
    /\ p_trace # <<>>
    /\ p_trace.result # <<>>
    /\ workq # <<>>
    /\ workq[Len(workq)] = [sid |-> "local", lines |-> p_trace.result]

\* C18: with several sessions running and emitting, at most one
\* process_lines call is in progress at any time, so at most one line is in
\* the parse / tokenize / detect / translate pipeline and the lines of two
\* batches are never interleaved.
C18_OneBatchAtATime == Cardinality(active) <= 1

\* A batch of one session is being processed while one of the other waits
C18_Witness ==
    \E a \in active :
        /\ workq # <<>>
        /\ Head(workq).sid # a.sid

\* C19: while the worker is inside a provider call, the GUI thread is not
\* waiting for it: every running session can take its next poll tick, which
\* reads the log and queues the batch.
C19_PollingNotBlockedByProvider ==
    (\E a \in active : a.stage = "translate") =>
        /\ gui = "idle"
        /\ \A sid \in SessionIds :
              sessions[sid].timer_active => ENABLED PollLog(sid)

\* A tick that found new lines while the worker was inside a provider call,
\* which it still is: the batch waits in the queue
C19_Witness ==
    /\ p_trace # <<>>
    /\ p_trace.worker = "translate"
    /\ p_trace.result # <<>>
    /\ \E a \in active : a.stage = "translate"
    /\ workq # <<>>
    /\ workq[Len(workq)] = [sid |-> p_trace.sid, lines |-> p_trace.result]

(***************************************************************************)
(* TranslationService.translate_message and the two providers              *)
(* (src/services/translator.py), with EVEGlossary.replace_terms            *)
(* (src/core/glossary.py).  Texts and language codes are sequences of code *)
(* points.  What the provider's web API answers is an input.               *)
(***************************************************************************)

\* Pieces a message is made of in the translation specification
MaxWords == 3

Hyphen == 45

IsLower(c) == 97 <= c /\ c <= 122

IsUpper(c) == 65 <= c /\ c <= 90

IsDigit(c) == 48 <= c /\ c <= 57

\* str.upper() and str.lower(), on the ASCII letters
upper(s) == [i \in 1..Len(s) |-> IF IsLower(s[i]) THEN s[i] - 32 ELSE s[i]]

lower(s) == [i \in 1..Len(s) |-> IF IsUpper(s[i]) THEN s[i] + 32 ELSE s[i]]

\* \w of the re module on str: letters of any script, digits, underscore
IsWordChar(c) ==
    IsLower(c) \/ IsUpper(c) \/ IsDigit(c) \/ c = Underscore \/ c >= 19968

\* The terms of the glossary, longest first, with their replacements:
\* "YST" -> "Ishtar" and the one-character CJK term U+86CB -> "Pod"
sorted_terms ==
    <<[term |-> <<89, 83, 84>>, replacement |-> <<73, 115, 104, 116, 97, 114>>],
      [term |-> <<34507>>, replacement |-> <<80, 111, 100>>]>>

\* re.match(r'^[a-zA-Z0-9]+$', term)
IsAlnumTerm(term) ==
    /\ term # <<>>
    /\ \A i \in 1..Len(term) : IsLower(term[i]) \/ IsUpper(term[i]) \/ IsDigit(term[i])

\* r'\b' + re.escape(term) + r'\b' matches at position i of s
MatchWordAt(s, term, i) ==
    /\ StartsWithAt(s, term, i)
    /\ i = 1 \/ ~IsWordChar(s[i - 1])
    /\ i + Len(term) > Len(s) \/ ~IsWordChar(s[i + Len(term)])

RECURSIVE SubWordFrom(_, _, _, _)
SubWordFrom(s, term, new, i) ==
    IF i > Len(s) THEN <<>>
    ELSE IF MatchWordAt(s, term, i)
         THEN new \o SubWordFrom(s, term, new, i + Len(term))
         ELSE <<s[i]>> \o SubWordFrom(s, term, new, i + 1)

\* str.split(): the maximal runs of characters that are not whitespace
RECURSIVE SplitFrom(_, _, _)
SplitFrom(s, i, word) ==
    IF i > Len(s) THEN IF word = <<>> THEN <<>> ELSE <<word>>
    ELSE IF IsSpace(s[i])
         THEN (IF word = <<>> THEN <<>> ELSE <<word>>) \o SplitFrom(s, i + 1, <<>>)
         ELSE SplitFrom(s, i + 1, Append(word, s[i]))

split(s) == SplitFrom(s, 1, <<>>)

\* " ".join(words)
RECURSIVE join(_)
join(words) ==
    IF words = <<>> THEN <<>>
    ELSE IF Len(words) = 1 THEN words[1]
    ELSE words[1] \o <<32>> \o join(Tail(words))

RECURSIVE ReplaceTermsFrom(_, _)
ReplaceTermsFrom(processed, k) ==
    IF k > Len(sorted_terms) THEN processed
    ELSE LET term == sorted_terms[k].term
             spaced == <<32>> \o sorted_terms[k].replacement \o <<32>>
         IN  IF strip(term) = <<>> THEN ReplaceTermsFrom(processed, k + 1)
             ELSE IF IsAlnumTerm(term)
             THEN ReplaceTermsFrom(SubWordFrom(processed, term, spaced, 1), k + 1)
             ELSE ReplaceTermsFrom(str_replace(processed, term, spaced), k + 1)

\* EVEGlossary.replace_terms
replace_terms(text) ==
    IF text = <<>> THEN text ELSE join(split(ReplaceTermsFrom(text, 1)))

\* DeepLProvider.DEEPL_SOURCE_LANGS
DEEPL_SOURCE_LANGS ==
    {
     <<66, 71>>, <<67, 83>>, <<68, 65>>, <<68, 69>>,
     <<69, 76>>, <<69, 78>>, <<69, 83>>, <<69, 84>>,
     <<70, 73>>, <<70, 82>>, <<72, 85>>, <<73, 68>>,
     <<73, 84>>, <<74, 65>>, <<75, 79>>, <<76, 84>>,
     <<76, 86>>, <<78, 66>>, <<78, 76>>, <<80, 76>>,
     <<80, 84>>, <<82, 79>>, <<82, 85>>, <<83, 75>>,
     <<83, 76>>, <<83, 86>>, <<84, 82>>, <<85, 75>>,
     <<90, 72>>
    }

\* Optional[str]: None, or a text
None == [some |-> FALSE, text |-> <<>>]

Some(text) == [some |-> TRUE, text |-> text]

\* Truth value of an Optional[str]: None and "" are false
Truthy(opt) == opt.some /\ opt.text # <<>>

\* What the provider's web API does with a request: it fails (the client
\* library raises), or it answers with a text, which may be empty
ApiAnswers == {[ok |-> FALSE, text |-> <<>>],
               [ok |-> TRUE, text |-> <<>>],
               [ok |-> TRUE, text |-> <<116>>]}

\* str.split('-')[0]
RECURSIVE BeforeHyphen(_)
BeforeHyphen(s) ==
    IF s = <<>> \/ s[1] = Hyphen THEN <<>>
    ELSE <<s[1]>> \o BeforeHyphen(Tail(s))

\* The target code DeepLProvider.translate sends: lang_map, else upper case
deepl_target(target_lang) ==
    LET t == lower(target_lang)
    IN  IF t = <<101, 110>> THEN <<69, 78, 45, 85, 83>>                   \* en -> EN-US
        ELSE IF t = <<103, 98>> THEN <<69, 78, 45, 71, 66>>               \* gb -> EN-GB
        ELSE IF t = <<112, 116>> THEN <<80, 84, 45, 80, 84>>              \* pt -> PT-PT
        ELSE IF t = <<112, 116, 45, 98, 114>> THEN <<80, 84, 45, 66, 82>> \* pt-br -> PT-BR
        ELSE upper(target_lang)

Auto == <<97, 117, 116, 111>>

Unknown == <<117, 110, 107, 110, 111, 119, 110>>

\* DeepLProvider.translate that forwards the normalised code unvalidated
deepl_source_unvalidated(source_lang) ==
    IF source_lang # <<>> /\ source_lang \notin {Auto, Unknown}
    THEN LET up == upper(source_lang)
             base == IF \E i \in 1..Len(up) : up[i] = Hyphen
                     THEN BeforeHyphen(up) ELSE up
         IN  {IF base = <<78, 79>> THEN <<78, 66>> ELSE base}
    ELSE {}

\* The source_lang argument DeepLProvider.translate passes to
\* translate_text: the empty set when it passes none
deepl_source(source_lang) ==
    IF source_lang # <<>> /\ source_lang \notin {Auto, Unknown}
    THEN LET up == upper(source_lang)
             base == IF \E i \in 1..Len(up) : up[i] = Hyphen
                     THEN BeforeHyphen(up) ELSE up
             sl == IF base = <<78, 79>> THEN <<78, 66>> ELSE base    \* NO -> NB
         IN  IF sl \in DEEPL_SOURCE_LANGS THEN {sl} ELSE {}
    ELSE {}

ApiCall(name, text, target, source) ==
    [fn |-> name, text |-> text, target |-> target, source |-> source]

\* DeepLProvider.translate: the request, and the Optional[str] returned
DeepLProvider_translate(text, target_lang, source_lang, api) ==
    [call |-> ApiCall("DeepL.translate_text", text, deepl_target(target_lang),
                      deepl_source(source_lang)),
     ret |-> IF api.ok THEN Some(api.text) ELSE None]

\* GoogleTransProvider.translate
GoogleTransProvider_translate(text, target_lang, source_lang, api) ==
    [call |-> ApiCall("Google.translate", text, target_lang,
                      IF source_lang # <<>> /\ source_lang # Auto
                                            /\ source_lang # Unknown
                      THEN {source_lang} ELSE {Auto}),
     ret |-> IF api.ok THEN Some(api.text) ELSE None]

provider_translate(svc, text, target_lang, source_lang, api) ==
    IF svc.provider = "DeepL"
    THEN DeepLProvider_translate(text, target_lang, source_lang, api)
    ELSE GoogleTransProvider_translate(text, target_lang, source_lang, api)

Returned(text, success, name) ==
    [text |-> text, success |-> success, provider |-> name]

\* translate_message after the check of a blank message
translate_nonblank(svc, msg, target_lang, source_lang, api) ==
    LET preprocessed == replace_terms(msg)
        p == provider_translate(svc, preprocessed, target_lang, source_lang, api)
        calls == <<ApiCall("replace_terms", msg, <<>>, {}), p.call>>
    IN  IF Truthy(p.ret)
        THEN [ret |-> Returned(p.ret.text, TRUE, svc.provider), calls |-> calls]
        ELSE [ret |-> Returned(msg, FALSE, svc.provider), calls |-> calls]

\* translate_message without its first two lines
translate_message_unguarded(svc, msg, target_lang, source_lang, api) ==
    translate_nonblank(svc, msg, target_lang, source_lang, api)

\* TranslationService.translate_message: the tuple returned, and the calls
\* made to the glossary and to the provider's API
translate_message(svc, msg, target_lang, source_lang, api) ==
    IF strip(msg) = <<>>
    THEN [ret |-> Returned(msg, TRUE, svc.provider), calls |-> <<>>]
    ELSE translate_nonblank(svc, msg, target_lang, source_lang, api)

\* A blank, the CJK glossary term, the ASCII glossary term, a letter
WordPieces == {<<32>>, <<34507>>, <<89, 83, 84>>, <<97>>}

RECURSIVE WordConcats(_)
WordConcats(n) ==
    IF n = 0 THEN {<<>>}
    ELSE LET shorter == WordConcats(n - 1)
         IN  shorter \cup {w \o p : w \in shorter, p \in WordPieces}

\* source_lang values: what the detector returns, and what a caller may pass
SourceLangs ==
    {
     <<>>,   \* ''
     <<97, 117, 116, 111>>,   \* 'auto'
     <<117, 110, 107, 110, 111, 119, 110>>,   \* 'unknown'
     <<65, 117, 116, 111>>,   \* 'Auto'
     <<101, 110>>,   \* 'en'
     <<122, 104, 45, 99, 110>>,   \* 'zh-cn'
     <<122, 104>>,   \* 'zh'
     <<110, 111>>,   \* 'no'
     <<110, 111, 45, 78, 79>>,   \* 'no-NO'
     <<115, 111>>,   \* 'so'
     <<45, 120>>,   \* '-x'
     <<101>>   \* 'e'
    }

\* target_language values: 'en' and 'pt-BR'
TargetLangs == {<<101, 110>>, <<112, 116, 45, 66, 82>>}

TranslateInit ==
    /\ MgrQuiet
    /\ TokQuiet
    /\ TailQuiet
    /\ SessQuiet
    /\ PipeQuiet
    /\ service \in {GoogleService, DeepLService(<<107>>)}
    /\ w_config = [deepl_api_key |-> IF service.provider = "DeepL"
                                     THEN <<107>> ELSE <<>>]
    /\ active = {}
    /\ w_trace = <<>>
    /\ \E m \in WordConcats(MaxWords), t \in TargetLangs, sl \in SourceLangs,
          api \in ApiAnswers :
          tr_in = [message |-> m, target_lang |-> t, source_lang |-> sl,
                   api |-> api]
    /\ tr_out = <<>>
    /\ tr_calls = <<>>
    /\ d_in = <<>>
    /\ d_out = <<>>
    /\ dl_out = <<>>
    /\ GlossQuiet
    /\ ScanQuiet

TranslateMessage ==
    /\ tr_out = <<>>
    /\ LET o == translate_message(service, tr_in.message, tr_in.target_lang,
                                  tr_in.source_lang, tr_in.api)
       IN  /\ tr_out' = o.ret
           /\ tr_calls' = o.calls
    /\ UNCHANGED <<tr_in, d_in, d_out, dl_out, gl_in, gl_out, sc_in, sc_fleets,
                   sc_chars>>
    /\ UNCHANGED <<tokVars, tailVars, sessVars, workVars, pipeVars, mgrVars>>

TranslateNext == TranslateMessage

SpecTranslate == TranslateInit /\ [][TranslateNext]_vars

\* The provider did not deliver: its API failed, or answered with nothing
ProviderFailed == ~tr_in.api.ok \/ tr_in.api.text = <<>>

\* C12: when the provider fails or returns nothing for a message that is not
\* blank, translate_message returns the glossary-substituted text
\* replace_terms(message), with success False and the provider's name.
C12_FailureReturnsGlossaryText ==
    (tr_out # <<>> /\ strip(tr_in.message) # <<>> /\ ProviderFailed) =>
        tr_out = Returned(replace_terms(tr_in.message), FALSE, service.provider)

\* C14: for an empty or whitespace-only message translate_message returns
\* the message unchanged with success True and the provider's name, and it
\* calls neither the glossary nor the provider.
C14_BlankShortCircuits ==
    (tr_out # <<>> /\ strip(tr_in.message) = <<>>) =>
        /\ tr_out = Returned(tr_in.message, TRUE, service.provider)
        /\ tr_calls = <<>>

C14_Witness ==
    /\ tr_out # <<>>
    /\ tr_in.message = <<32, 32>>
    /\ service.provider = "DeepL"

\* The request DeepLProvider.translate made in this call
DeepLRequests ==
    {tr_calls[i] : i \in {j \in 1..Len(tr_calls) :
                             tr_calls[j].fn = "DeepL.translate_text"}}

\* C15: the source-language hint the paid provider forwards is absent or a
\* member of DEEPL_SOURCE_LANGS: '', 'auto' and 'unknown' give no hint, a
\* hyphenated code gives its base code, 'no' gives 'NB', and a code that is
\* still outside the set gives no hint.
C15_SourceHintAbsentOrSupported ==
    \A r \in DeepLRequests :
        LET sl == tr_in.source_lang
        IN  /\ r.source \subseteq DEEPL_SOURCE_LANGS
            /\ Cardinality(r.source) <= 1
            /\ sl \in {<<>>, Auto, Unknown} => r.source = {}
            /\ sl = <<122, 104, 45, 99, 110>> => r.source = {<<90, 72>>}
            /\ sl = <<110, 111>> => r.source = {<<78, 66>>}
            /\ sl = <<110, 111, 45, 78, 79>> => r.source = {<<78, 66>>}
            /\ sl = <<101, 110>> => r.source = {<<69, 78>>}
            /\ sl \in {<<115, 111>>, <<45, 120>>, <<101>>} => r.source = {}

C15_Witness ==
    /\ tr_in.source_lang = <<110, 111, 45, 78, 79>>
    /\ \E r \in DeepLRequests : r.source = {<<78, 66>>}

(***************************************************************************)
(* LanguageDetector.should_translate (src/core/detector.py).  Texts are    *)
(* sequences of code points, language codes are strings.  What langdetect  *)
(* answers for a text is an input.                                         *)
(***************************************************************************)

\* Pieces a text is made of in the detector specification
MaxTextPieces == 3

\* A pattern of the ignore tables: the literal lit anywhere in the text, or,
\* anchored, the text being lit with its last character repeated ("^gg+$")
Literal(lit) == [anchored |-> FALSE, lit |-> lit]

Anchored(lit) == [anchored |-> TRUE, lit |-> lit]

\* Two patterns of the force-ignore table: r'WTS', r'plex'
force_ignore_patterns == <<Literal(<<87, 84, 83>>), Literal(<<112, 108, 101, 120>>)>>

\* Two patterns of the slang table: r'^gg+$', r'^o7+$'
internet_slang_patterns == <<Anchored(<<103, 103>>), Anchored(<<111, 55>>)>>

\* lit followed by any number of repetitions of its last character
RECURSIVE IsRepeatedTail(_, _)
IsRepeatedTail(s, lit) ==
    IF Len(s) < Len(lit) THEN FALSE
    ELSE IF Len(s) = Len(lit) THEN s = lit
    ELSE /\ s[Len(s)] = lit[Len(lit)]
         /\ IsRepeatedTail(SubSeq(s, 1, Len(s) - 1), lit)

\* re.search(pattern, s, re.IGNORECASE)
re_search(pattern, s) ==
    IF pattern.anchored
    THEN IsRepeatedTail(lower(s), lower(pattern.lit))
    ELSE \E i \in 1..Len(s) : StartsWithAt(lower(s), lower(pattern.lit), i)

\* cjk_pattern, hangul_pattern, kana_pattern
IsCjkChar(c) ==
    \/ 19968 <= c /\ c <= 40959
    \/ 12352 <= c /\ c <= 12447
    \/ 12448 <= c /\ c <= 12543

IsHangulChar(c) == 44032 <= c /\ c <= 55215

IsKanaChar(c) == 12352 <= c /\ c <= 12543

is_cjk(text) == \E i \in 1..Len(text) : IsCjkChar(text[i])

isascii(text) == \A i \in 1..Len(text) : text[i] < 128

\* detected.startswith('zh')
StartsWithZh(code) == code \in {"zh", "zh-cn", "zh-tw"}

\* detect_language that believes a 'ko' or 'ja' answer on CJK text
detect_language_trusts_detector(text, detect) ==
    IF strip(text) = <<>> THEN "unknown"
    ELSE IF Len(text) < 4 /\ isascii(text) THEN "en"
    ELSE IF detect = "LangDetectException" /\ isascii(text) THEN "en"
    ELSE LET detected == IF detect = "LangDetectException" THEN "unknown"
                         ELSE detect
         IN  IF is_cjk(text) /\ ~StartsWithZh(detected)
                             /\ detected \notin {"ja", "ko"}
             THEN "zh" ELSE detected

\* detect_language without its shortcut for short ASCII strings
detect_language_always_detects(text, detect) ==
    IF strip(text) = <<>> THEN "unknown"
    ELSE IF detect = "LangDetectException"
    THEN IF isascii(text) THEN "en" ELSE IF is_cjk(text) THEN "zh" ELSE "unknown"
    ELSE detect

\* detect_language: detect is what langdetect answers for the text, a code
\* or "LangDetectException"
detect_language(text, detect) ==
    IF strip(text) = <<>> THEN "unknown"
    ELSE IF Len(text) < 4 /\ isascii(text) THEN "en"
    ELSE IF detect = "LangDetectException" /\ isascii(text) THEN "en"
    ELSE LET detected == IF detect = "LangDetectException" THEN "unknown"
                         ELSE detect
         IN  IF is_cjk(text)
             THEN IF ~StartsWithZh(detected) /\ detected \notin {"ja", "ko"}
                  THEN "zh"
                  ELSE IF detected = "ko"
                          /\ ~\E i \in 1..Len(text) : IsHangulChar(text[i])
                  THEN "zh"
                  ELSE IF detected = "ja"
                          /\ ~\E i \in 1..Len(text) : IsKanaChar(text[i])
                  THEN "zh"
                  ELSE detected
             ELSE detected

Decision(translate, lang) == [translate |-> translate, lang |-> lang]

\* should_translate whose CJK step looks the corrected code up in the
\* ignore set
after_keyword_filter_own_code(text, ignored_langs, detect) ==
    IF is_cjk(text)
    THEN LET cjk_lang == detect_language(text, detect)
         IN  IF cjk_lang \in ignored_langs
             THEN Decision(FALSE, cjk_lang)
             ELSE Decision(TRUE, cjk_lang)
    ELSE IF Len(strip(text)) < 2 THEN Decision(FALSE, "short_text")
    ELSE LET lang == detect_language(text, detect)
         IN  IF lang \in ignored_langs THEN Decision(FALSE, lang)
             ELSE IF lang = "unknown" THEN Decision(FALSE, lang)
             ELSE Decision(TRUE, lang)

\* should_translate after the keyword filter
after_keyword_filter(text, ignored_langs, detect) ==
    IF is_cjk(text)
    THEN LET cjk_lang == detect_language(text, detect)
         IN  IF {"zh", "ja", "ko"} \subseteq ignored_langs
             THEN Decision(FALSE, cjk_lang)
             ELSE Decision(TRUE, cjk_lang)
    ELSE IF Len(strip(text)) < 2 THEN Decision(FALSE, "short_text")
    ELSE LET lang == detect_language(text, detect)
         IN  IF lang \in ignored_langs THEN Decision(FALSE, lang)
             ELSE IF lang = "unknown" THEN Decision(FALSE, lang)
             ELSE Decision(TRUE, lang)

all_ignore_patterns == force_ignore_patterns \o internet_slang_patterns

\* The loop of the keyword filter, on the stripped text
keyword_ignored(text) ==
    \E k \in 1..Len(all_ignore_patterns) :
        re_search(all_ignore_patterns[k], strip(text))

\* should_translate with the CJK check in front of the keyword filter
should_translate_cjk_first(text, ignored_langs, detect) ==
    IF is_cjk(text) THEN after_keyword_filter(text, ignored_langs, detect)
    ELSE IF keyword_ignored(text) THEN Decision(FALSE, "ignored_keyword")
    ELSE after_keyword_filter(text, ignored_langs, detect)

\* LanguageDetector.should_translate
should_translate(text, ignored_langs, detect) ==
    IF keyword_ignored(text) THEN Decision(FALSE, "ignored_keyword")
    ELSE after_keyword_filter(text, ignored_langs, detect)

\* A blank, "WtS", "g", "G", a Han character, a kana, a Hangul syllable, a
\* letter
TextPieces == {<<32>>, <<87, 116, 83>>, <<103>>, <<71>>, <<20013>>, <<12354>>,
               <<50504>>, <<97>>}

RECURSIVE TextConcats(_)
TextConcats(n) ==
    IF n = 0 THEN {<<>>}
    ELSE LET shorter == TextConcats(n - 1)
         IN  shorter \cup {w \o p : w \in shorter, p \in TextPieces}

\* ignored_languages: the default, nothing, one CJK language, two of them,
\* and every CJK language
IgnoredSets == {{"en"}, {}, {"zh"}, {"en", "ja", "ko"}, {"en", "zh", "ja", "ko"}}

\* Answers of langdetect
DetectAnswers == {"en", "zh-cn", "ko", "ja", "sw", "LangDetectException"}

DetectInit ==
    /\ MgrQuiet
    /\ TokQuiet
    /\ TailQuiet
    /\ SessQuiet
    /\ WorkQuiet
    /\ PipeQuiet
    /\ tr_in = <<>>
    /\ tr_out = <<>>
    /\ tr_calls = <<>>
    /\ \E text \in TextConcats(MaxTextPieces), ig \in IgnoredSets,
          detect \in DetectAnswers :
          d_in = [text |-> text, ignored_langs |-> ig, detect |-> detect]
    /\ d_out = <<>>
    /\ dl_out = <<>>
    /\ GlossQuiet
    /\ ScanQuiet

ShouldTranslate ==
    /\ d_out = <<>>
    /\ d_out' = should_translate(d_in.text, d_in.ignored_langs, d_in.detect)
    /\ UNCHANGED <<tr_in, tr_out, tr_calls, d_in, dl_out, gl_in, gl_out, sc_in,
                   sc_fleets, sc_chars>>
    /\ UNCHANGED <<tokVars, tailVars, sessVars, workVars, pipeVars, mgrVars>>

\* The calls detect_language makes to langdetect.detect for the text
detect_calls(text) ==
    IF strip(text) = <<>> THEN <<>>
    ELSE IF Len(text) < 4 /\ isascii(text) THEN <<>>
    ELSE <<"detect">>

\* LanguageDetector.detect_language, called on the text directly
DetectLanguage ==
    /\ dl_out = <<>>
    /\ dl_out' = [lang |-> detect_language(d_in.text, d_in.detect),
                  calls |-> detect_calls(d_in.text)]
    /\ UNCHANGED <<tr_in, tr_out, tr_calls, d_in, d_out, gl_in, gl_out, sc_in,
                   sc_fleets, sc_chars>>
    /\ UNCHANGED <<tokVars, tailVars, sessVars, workVars, pipeVars, mgrVars>>

DetectNext == ShouldTranslate \/ DetectLanguage

SpecDetect == DetectInit /\ [][DetectNext]_vars

\* The text matches a pattern of one of the two tables, case-insensitively
MatchesIgnoreTable(text) ==
    \/ \E k \in 1..Len(force_ignore_patterns) :
          re_search(force_ignore_patterns[k], text)
    \/ \E k \in 1..Len(internet_slang_patterns) :
          re_search(internet_slang_patterns[k], text)

\* C20: for a text that matches a force-ignore or slang pattern, whatever its
\* case, should_translate returns (False, 'ignored_keyword'), whatever the
\* script of the text, the set of ignored languages and the answer of the
\* statistical detector, also when the text contains CJK characters.
C20_KeywordFilterFirst ==
    (d_out # <<>> /\ MatchesIgnoreTable(d_in.text)) =>
        d_out = Decision(FALSE, "ignored_keyword")

\* A text with a Han character and "WtS", nothing ignored, detected as zh-cn
C20_Witness ==
    /\ d_out # <<>>
    /\ d_in.text = <<20013, 87, 116, 83>>
    /\ d_in.ignored_langs = {}
    /\ d_in.detect = "zh-cn"

\* C30: every span of the link tokenizer starts at a control character;
\* every character inside a span that is not a control character, ASCII or
\* above U+009F, is immediately followed by a control character; and the
\* span ends at the end of the input or at the first character that is not a
\* control character and is not immediately followed by one.
C30_SpanCharsLeadToControl ==
    tk_pc = "tokenized" =>
        \A k \in 1..Len(detect_eve_links(message)) :
            LET span == detect_eve_links(message)[k]
                FollowedByControl(j) ==
                    j + 1 <= Len(message) /\ IsControl(message[j + 1])
            IN  /\ IsControl(message[span.start])
                /\ \A j \in span.start..(span.end - 1) :
                      ~IsControl(message[j]) => FollowedByControl(j)
                /\ span.end <= Len(message) =>
                      /\ ~IsControl(message[span.end])
                      /\ ~FollowedByControl(span.end)

\* The scripts of a text
HasHan(text) == \E i \in 1..Len(text) : 19968 <= text[i] /\ text[i] <= 40959

HasKana(text) == \E i \in 1..Len(text) : 12352 <= text[i] /\ text[i] <= 12543

HasHangul(text) == \E i \in 1..Len(text) : 44032 <= text[i] /\ text[i] <= 55215

CjkCodes == {"zh", "zh-cn", "zh-tw", "ja", "ko"}

AllCjkIgnored == {"zh", "ja", "ko"} \subseteq d_in.ignored_langs

C22_PureHanIsChinese ==
    (dl_out # <<>> /\ HasHan(d_in.text) /\ ~HasKana(d_in.text)
                   /\ ~HasHangul(d_in.text)) =>
        StartsWithZh(dl_out.lang)

C22_Witness ==
    /\ dl_out # <<>>
    /\ dl_out.lang = "zh"
    /\ d_in.text = <<20013, 97, 20013>>
    /\ d_in.detect = "ja"

\* C23: a text with a character of one of the four CJK ranges (Han, Hiragana,
\* Katakana, Hangul) that matches no ignore pattern is decided by the CJK
\* step: it is never rejected as 'short_text', and it is translated unless
\* 'zh', 'ja' and 'ko' are all in the ignore set.
C23_FourRangesDecidedByCjkStep ==
    (d_out # <<>> /\ (HasHan(d_in.text) \/ HasKana(d_in.text)
                                        \/ HasHangul(d_in.text))
                  /\ ~MatchesIgnoreTable(d_in.text)) =>
        /\ d_out.lang # "short_text"
        /\ d_out.translate = ~AllCjkIgnored

\* C24 as stated: for every pure-ASCII string of fewer than 4 characters
\* detect_language returns 'en' and does not call the statistical detector.
C24_ShortAsciiIsEnglish ==
    (dl_out # <<>> /\ Len(d_in.text) < 4 /\ isascii(d_in.text)) =>
        /\ dl_out.lang = "en"
        /\ dl_out.calls = <<>>

\* C24, amended: for every pure-ASCII string of fewer than 4 characters
\* detect_language does not call the statistical detector; it returns 'en'
\* unless the string is empty or whitespace only, and 'unknown' then.
C24_ShortAsciiIsEnglishUnlessBlank ==
    (dl_out # <<>> /\ Len(d_in.text) < 4 /\ isascii(d_in.text)) =>
        /\ dl_out.calls = <<>>
        /\ dl_out.lang = IF \A i \in 1..Len(d_in.text) : IsSpace(d_in.text[i])
                         THEN "unknown" ELSE "en"

C24_Witness ==
    /\ dl_out # <<>>
    /\ dl_out.lang = "en"
    /\ d_in.text = <<103, 32, 97>>
    /\ d_in.detect = "sw"

(***************************************************************************)
(* The glossary with any term table: src/core/glossary.py                  *)
(***************************************************************************)
\* The length of the longest text handed to the glossary.
MaxGlossText == 4

\* The characters of those texts: U+86CB, U+4E59, a space and "A"
GlossChars == {34507, 20057, 32, 65}

\* EVEGlossary.terms, as YAML loading leaves them: the items of a dict in
\* insertion order.  A longer term that contains a shorter one; the same
\* with a replacement that contains the shorter term; a term of two words;
\* two terms of one length, the first one's replacement holding the second;
\* and two terms of the hardcoded fallback.
GlossTables ==
    {<<[term |-> <<34507>>, replacement |-> <<66>>],
       [term |-> <<34507, 20057>>, replacement |-> <<67>>]>>,
     <<[term |-> <<34507>>, replacement |-> <<66>>],
       [term |-> <<34507, 20057>>, replacement |-> <<34507>>]>>,
     <<[term |-> <<65, 32, 65>>, replacement |-> <<66>>]>>,
     <<[term |-> <<65>>, replacement |-> <<20057>>],
       [term |-> <<20057>>, replacement |-> <<66>>]>>,
     <<[term |-> <<34507>>, replacement |-> <<80, 111, 100>>],
       [term |-> <<89, 83, 84>>, replacement |-> <<73, 115, 104, 116, 97, 114>>]>>}

RECURSIVE GlossTexts(_)
GlossTexts(n) ==
    IF n = 0 THEN {<<>>}
    ELSE LET shorter == GlossTexts(n - 1)
         IN  shorter \cup {Append(t, c) : t \in shorter, c \in GlossChars}

\* sorted(self.terms.items(), key=lambda x: len(x[0]), reverse=True): the
\* longest term first; terms of one length keep their order (the sort is
\* stable, also when reversed)
RECURSIVE sort_terms(_)
sort_terms(items) ==
    IF items = <<>> THEN <<>>
    ELSE LET first == CHOOSE i \in DOMAIN items :
                 /\ \A j \in DOMAIN items :
                        Len(items[j].term) <= Len(items[i].term)
                 /\ \A j \in 1..(i - 1) :
                        Len(items[j].term) < Len(items[i].term)
             others == SubSeq(items, 1, first - 1)
                           \o SubSeq(items, first + 1, Len(items))
         IN  <<items[first]>> \o sort_terms(others)

\* A character of the text in process: its code point, and the position in
\* sorted_terms of the term whose replacement put it there (0: it is a
\* character of the text replace_terms was called with)
Mark(c, k) == [c |-> c, by |-> k]

MarkAll(text, k) == [i \in DOMAIN text |-> Mark(text[i], k)]

Codes(s) == [i \in DOMAIN s |-> s[i].c]

\* The pattern of one term matches at position i: r'\b' + term + r'\b' for a
\* term of letters and digits, the literal term otherwise
TermMatchesAt(codes, term, i) ==
    IF IsAlnumTerm(term) THEN MatchWordAt(codes, term, i)
    ELSE StartsWithAt(codes, term, i)

\* Where re.sub and str.replace find the term: the non-overlapping matches,
\* left to right
RECURSIVE MatchStarts(_, _, _)
MatchStarts(codes, term, i) ==
    IF i > Len(codes) THEN {}
    ELSE IF TermMatchesAt(codes, term, i)
         THEN {i} \cup MatchStarts(codes, term, i + Len(term))
         ELSE MatchStarts(codes, term, i + 1)

RECURSIVE Substitute(_, _, _, _, _)
Substitute(s, starts, n, new, i) ==
    IF i > Len(s) THEN <<>>
    ELSE IF i \in starts
         THEN new \o Substitute(s, starts, n, new, i + n)
         ELSE <<s[i]>> \o Substitute(s, starts, n, new, i + 1)

\* The loop of replace_terms from the k-th term on.  st.processed is the
\* local variable processed; st.rewritten collects <<k, by>> whenever the
\* match of term k covers a character that the replacement of term by put
\* into processed.
RECURSIVE ReplaceMarkedFrom(_, _, _)
ReplaceMarkedFrom(terms, st, k) ==
    IF k > Len(terms) THEN st
    ELSE LET term == terms[k].term
             starts == MatchStarts(Codes(st.processed), term, 1)
             new == MarkAll(<<32>> \o terms[k].replacement \o <<32>>, k)
             covered == {j \in DOMAIN st.processed :
                            \E i \in starts : i <= j /\ j < i + Len(term)}
             hit == {<<k, st.processed[j].by>> :
                        j \in {j \in covered : st.processed[j].by # 0}}
         IN  IF strip(term) = <<>> THEN ReplaceMarkedFrom(terms, st, k + 1)
             ELSE ReplaceMarkedFrom(terms,
                      [processed |-> Substitute(st.processed, starts,
                                                Len(term), new, 1),
                       rewritten |-> st.rewritten \cup hit],
                      k + 1)

\* EVEGlossary.replace_terms of a glossary whose terms are items: the value
\* returned (out), processed as the loop left it, and what the loop rewrote
glossary_replace_terms(items, text) ==
    IF text = <<>>
    THEN [out |-> text, processed |-> <<>>, rewritten |-> {}]
    ELSE LET st == ReplaceMarkedFrom(sort_terms(items),
                       [processed |-> MarkAll(text, 0), rewritten |-> {}], 1)
         IN  [out |-> join(split(Codes(st.processed))),
              processed |-> st.processed,
              rewritten |-> st.rewritten]

GlossaryInit ==
    /\ MgrQuiet
    /\ TokQuiet
    /\ TailQuiet
    /\ SessQuiet
    /\ WorkQuiet
    /\ PipeQuiet
    /\ tr_in = <<>>
    /\ tr_out = <<>>
    /\ tr_calls = <<>>
    /\ d_in = <<>>
    /\ d_out = <<>>
    /\ dl_out = <<>>
    /\ \E items \in GlossTables, text \in GlossTexts(MaxGlossText) :
          gl_in = [terms |-> items, text |-> text]
    /\ gl_out = <<>>
    /\ ScanQuiet

\* replace_terms(text), and replace_terms of what it returned
ReplaceTerms ==
    /\ gl_out = <<>>
    /\ LET r == glossary_replace_terms(gl_in.terms, gl_in.text)
       IN  gl_out' = [once |-> r.out,
                      twice |-> glossary_replace_terms(gl_in.terms, r.out).out,
                      processed |-> r.processed,
                      rewritten |-> r.rewritten]
    /\ UNCHANGED <<tr_in, tr_out, tr_calls, d_in, d_out, dl_out, gl_in, sc_in,
                   sc_fleets, sc_chars>>
    /\ UNCHANGED <<tokVars, tailVars, sessVars, workVars, pipeVars, mgrVars>>

GlossaryNext == ReplaceTerms

SpecGlossary == GlossaryInit /\ [][GlossaryNext]_vars

\* The text contains the term
Contains(text, term) == \E i \in 1..Len(text) : StartsWithAt(text, term, i)

\* The characters of processed that the replacement of term k put there
InsertedBy(processed, k) == {j \in DOMAIN processed : processed[j].by = k}

\* The first term of sorted_terms contains a later, shorter one, and in the
\* text both match inside one span
LongerAndShorterMatch(terms, text) ==
    \E b \in 2..Len(terms), i \in 1..Len(text) :
        /\ Len(terms[b].term) < Len(terms[1].term)
        /\ Contains(terms[1].term, terms[b].term)
        /\ TermMatchesAt(text, terms[1].term, i)
        /\ \E j \in i..(i + Len(terms[1].term) - 1) :
              /\ TermMatchesAt(text, terms[b].term, j)
              /\ j + Len(terms[b].term) <= i + Len(terms[1].term)

\* C25: when a term contains a shorter term and both match one span of the
\* text, every span the longer term matches holds the longer term's
\* replacement when replace_terms is done: the replacement, with the space
\* on either side of it, is in processed once per match, and no part of it
\* was replaced for the shorter term.
C25_LongerTermWins ==
    (gl_out # <<>> /\ LongerAndShorterMatch(sort_terms(gl_in.terms), gl_in.text)) =>
        LET terms == sort_terms(gl_in.terms)
            starts == MatchStarts(gl_in.text, terms[1].term, 1)
        IN  Cardinality(InsertedBy(gl_out.processed, 1)) =
                Cardinality(starts) * (Len(terms[1].replacement) + 2)

\* C26: replace_terms never matches a term in, and so never rewrites, text
\* that it inserted as the replacement of an earlier term in the same call.
C26_ReplacementNotReentrant ==
    gl_out # <<>> => gl_out.rewritten = {}

\* C27: on a text that contains none of the table's source terms,
\* replace_terms applied twice returns what it returns applied once.
C27_IdempotentOnTermFreeText ==
    (gl_out # <<>> /\ \A k \in DOMAIN gl_in.terms :
                         ~Contains(gl_in.text, gl_in.terms[k].term)) =>
        gl_out.twice = gl_out.once

(***************************************************************************)
(* Source discovery: src/services/fleet_detector.py and                    *)
(* src/services/local_detector.py                                          *)
(***************************************************************************)
\* The number of entries of the scanned directory.
MaxEntries == 2

\* scan_active_fleets' default for active_threshold_seconds.
DefaultThreshold == 1800

\* The age below which scan_active_characters takes a log for active.
ActiveLogSeconds == 300

\* The configured inactivity thresholds, and the ages of the files (the
\* scan's time.time() minus st_mtime), on either side of them
Thresholds == {ActiveLogSeconds, DefaultThreshold}

Ages == {ActiveLogSeconds - 1, ActiveLogSeconds, ActiveLogSeconds + 1,
         DefaultThreshold, DefaultThreshold + 1}

\* The character ids in the names of the Local_* files
CharIds == {1, 2}

\* "P", a character's name
NameP == <<80>>

\* f"Character_{char_id}"
FallbackName(id) ==
    <<67, 104, 97, 114, 97, 99, 116, 101, 114, 95>> \o DecimalStr(id)

\* An entry that os.scandir yields.  kind and id stand for the name:
\*   "Fleet"  Fleet_*.txt
\*   "Local"  Local_*.txt, id the character id that the pattern
\*            Local_\d{8}_\d{6}_(\d+)\.txt$ finds in it, 0 if it finds none
\*   "Other"  any other name
\* is_file is what entry.is_file() does ("OSError": it raises); stat_ok says
\* whether entry.stat() succeeds, age is the file's age in seconds; listener
\* is what the first 15 lines of the file give for 'Listener:' (None when
\* they hold none or the file cannot be read).
DirEntry(kind, id, is_file, stat_ok, seconds, listener) ==
    [kind |-> kind, id |-> id, is_file |-> is_file, stat_ok |-> stat_ok,
     age |-> seconds, listener |-> listener]

DirEntries ==
    {DirEntry("Fleet", 0, "yes", TRUE, a, l) :
        a \in Ages, l \in {None, Some(<<>>), Some(NameP)}}
    \cup {DirEntry("Local", id, "yes", TRUE, a, l) :
        id \in CharIds, a \in Ages, l \in {None, Some(NameP)}}
    \cup {DirEntry(k, 1, "yes", FALSE, ActiveLogSeconds, Some(NameP)) :
        k \in {"Fleet", "Local"}}
    \cup {DirEntry(k, 1, "no", TRUE, ActiveLogSeconds, Some(NameP)) :
        k \in {"Fleet", "Local"}}
    \cup {DirEntry("Local", 0, "yes", TRUE, ActiveLogSeconds, Some(NameP)),
          DirEntry("Other", 0, "yes", TRUE, ActiveLogSeconds, Some(NameP)),
          DirEntry("Other", 0, "OSError", TRUE, ActiveLogSeconds, Some(NameP))}

RECURSIVE Directories(_)
Directories(n) ==
    IF n = 0 THEN {<<>>}
    ELSE LET shorter == Directories(n - 1)
         IN  shorter \cup {Append(d, e) : d \in shorter, e \in DirEntries}

\* The scan ends in the outer except OSError: os.scandir raises, or
\* entry.is_file(), which is called outside the inner try, does
ScanRaises(in) ==
    \/ ~in.scandir_ok
    \/ \E p \in DOMAIN in.entries : in.entries[p].is_file = "OSError"

\* entry.is_file() and entry.name.startswith(prefix) and
\* entry.name.endswith(".txt")
is_log_of(e, kind) == e.is_file = "yes" /\ e.kind = kind

\* age_seconds > active_threshold_seconds, with the boundary on the wrong side
fleet_skipped_at_threshold(age_seconds, active_threshold_seconds) ==
    age_seconds >= active_threshold_seconds

\* age_seconds > active_threshold_seconds: skip inactive logs
fleet_skipped(age_seconds, active_threshold_seconds) ==
    age_seconds > active_threshold_seconds

\* FleetDetector.scan_active_fleets: the registry, path -> FleetInfo.  The
\* path of an entry is its position in the directory.  (created_time, which
\* no decision depends on, is left out of FleetInfo.)
scan_active_fleets(in) ==
    IF ScanRaises(in) THEN <<>>
    ELSE LET kept == {p \in DOMAIN in.entries :
                         /\ is_log_of(in.entries[p], "Fleet")
                         /\ in.entries[p].stat_ok
                         /\ ~fleet_skipped(in.entries[p].age, in.threshold)
                         /\ Truthy(in.entries[p].listener)}
         IN  [p \in kept |->
                 [fleet_id |-> p,
                  listener_name |-> in.entries[p].listener.text,
                  log_path |-> p,
                  age |-> in.entries[p].age,
                  is_active |-> TRUE]]

\* character_logs: char id -> the paths appended for it, in scan order
RECURSIVE LogsFrom(_, _, _)
LogsFrom(entries, id, p) ==
    IF p > Len(entries) THEN <<>>
    ELSE IF /\ is_log_of(entries[p], "Local")
            /\ entries[p].id = id
            /\ entries[p].stat_ok
         THEN <<p>> \o LogsFrom(entries, id, p + 1)
         ELSE LogsFrom(entries, id, p + 1)

character_logs(entries) ==
    LET ids == {entries[p].id : p \in {p \in DOMAIN entries :
                    /\ is_log_of(entries[p], "Local")
                    /\ entries[p].id # 0
                    /\ entries[p].stat_ok}}
    IN  [id \in ids |-> LogsFrom(entries, id, 1)]

\* logs.sort(key=lambda x: x[1], reverse=True): the greatest mtime (the
\* smallest age) first; the sort is stable
RECURSIVE sort_logs(_, _)
sort_logs(entries, logs) ==
    IF logs = <<>> THEN <<>>
    ELSE LET first == CHOOSE i \in DOMAIN logs :
                 /\ \A j \in DOMAIN logs :
                        entries[logs[i]].age <= entries[logs[j]].age
                 /\ \A j \in 1..(i - 1) :
                        entries[logs[i]].age < entries[logs[j]].age
             others == SubSeq(logs, 1, first - 1)
                           \o SubSeq(logs, first + 1, Len(logs))
         IN  <<logs[first]>> \o sort_logs(entries, others)

\* latest_path taken without the sort: the first log in scan order
latest_log_unsorted(entries, logs) == logs[1]

\* latest_path, latest_mtime = logs[0] after the sort
latest_log(entries, logs) == sort_logs(entries, logs)[1]

\* The name from the header of the first log that has one (latest first),
\* else the fallback name
RECURSIVE char_name_from(_, _, _)
char_name_from(entries, logs, id) ==
    IF logs = <<>> THEN FallbackName(id)
    ELSE IF Truthy(entries[logs[1]].listener)
         THEN entries[logs[1]].listener.text
         ELSE char_name_from(entries, Tail(logs), id)

\* LocalChatDetector.is_character_window_open: a window titled
\* "EVE - <char_name>" exists
is_character_window_open(windows, char_name) ==
    char_name # <<>> /\ char_name \in windows

\* LocalChatDetector.scan_active_characters: the registry, char id ->
\* CharacterInfo.  (system_name, which no decision depends on, is left out.)
scan_active_characters(in) ==
    IF ScanRaises(in) THEN <<>>
    ELSE LET logs == character_logs(in.entries)
         IN  [id \in DOMAIN logs |->
                 LET latest == latest_log(in.entries, logs[id])
                     name == char_name_from(in.entries,
                                 sort_logs(in.entries, logs[id]), id)
                 IN  [character_id |-> id,
                      character_name |-> name,
                      latest_log_path |-> latest,
                      age |-> in.entries[latest].age,
                      is_active |->
                          \/ in.entries[latest].age < ActiveLogSeconds
                          \/ is_character_window_open(in.windows, name)]]

ScanInit ==
    /\ MgrQuiet
    /\ TokQuiet
    /\ TailQuiet
    /\ SessQuiet
    /\ WorkQuiet
    /\ PipeQuiet
    /\ tr_in = <<>>
    /\ tr_out = <<>>
    /\ tr_calls = <<>>
    /\ d_in = <<>>
    /\ d_out = <<>>
    /\ dl_out = <<>>
    /\ GlossQuiet
    /\ \E entries \in Directories(MaxEntries), ok \in BOOLEAN,
          threshold \in Thresholds,
          windows \in SUBSET {NameP, FallbackName(1)} :
          sc_in = [entries |-> entries, scandir_ok |-> ok,
                   threshold |-> threshold, windows |-> windows]
    /\ sc_fleets = <<>>
    /\ sc_chars = <<>>

ScanFleets ==
    /\ sc_fleets = <<>>
    /\ sc_fleets' = [registry |-> scan_active_fleets(sc_in)]
    /\ UNCHANGED <<tr_in, tr_out, tr_calls, d_in, d_out, dl_out, gl_in, gl_out,
                   sc_in, sc_chars>>
    /\ UNCHANGED <<tokVars, tailVars, sessVars, workVars, pipeVars, mgrVars>>

ScanCharacters ==
    /\ sc_chars = <<>>
    /\ sc_chars' = [registry |-> scan_active_characters(sc_in)]
    /\ UNCHANGED <<tr_in, tr_out, tr_calls, d_in, d_out, dl_out, gl_in, gl_out,
                   sc_in, sc_fleets>>
    /\ UNCHANGED <<tokVars, tailVars, sessVars, workVars, pipeVars, mgrVars>>

ScanNext == ScanFleets \/ ScanCharacters

SpecScan == ScanInit /\ [][ScanNext]_vars

\* The paths of the directory's regular files named as logs of the kind
LogFiles(in, kind) ==
    {p \in DOMAIN in.entries : is_log_of(in.entries[p], kind)}

\* C28 as stated: after a scan of a directory that could be listed, a
\* Fleet_*.txt file older than the threshold is not in the registry of
\* scan_active_fleets, and every Fleet_*.txt file whose age is within the
\* threshold is in it, under its path, with is_active true.
C28_WithinThresholdIsRegistered ==
    (sc_fleets # <<>> /\ ~ScanRaises(sc_in)) =>
        \A p \in LogFiles(sc_in, "Fleet") :
            IF sc_in.entries[p].age > sc_in.threshold
            THEN p \notin DOMAIN sc_fleets.registry
            ELSE /\ p \in DOMAIN sc_fleets.registry
                 /\ sc_fleets.registry[p].fleet_id = p
                 /\ sc_fleets.registry[p].log_path = p
                 /\ sc_fleets.registry[p].is_active

\* C28, amended: the registry of scan_active_fleets holds exactly the
\* Fleet_*.txt files whose stat succeeded, whose age is at most the
\* threshold and whose header names a listener, each under its path with
\* is_active true, provided the scan raised no OSError; it is empty when
\* the scan did.  A file older than the threshold is never in it.
C28_NamedReadableLogWithinThresholdIsRegistered ==
    sc_fleets # <<>> =>
        /\ DOMAIN sc_fleets.registry \subseteq LogFiles(sc_in, "Fleet")
        /\ \A p \in LogFiles(sc_in, "Fleet") :
              LET e == sc_in.entries[p]
                  listed == /\ ~ScanRaises(sc_in)
                            /\ e.stat_ok
                            /\ e.age <= sc_in.threshold
                            /\ Truthy(e.listener)
              IN  /\ p \in DOMAIN sc_fleets.registry <=> listed
                  /\ listed =>
                        /\ sc_fleets.registry[p].fleet_id = p
                        /\ sc_fleets.registry[p].log_path = p
                        /\ sc_fleets.registry[p].is_active

\* A scan found one log exactly as old as the threshold and registered it,
\* and found a log with a listener that is older and left it out
C28_Witness ==
    /\ sc_fleets # <<>>
    /\ \E p, q \in LogFiles(sc_in, "Fleet") :
          /\ sc_in.entries[p].age = sc_in.threshold
          /\ p \in DOMAIN sc_fleets.registry
          /\ sc_fleets.registry[p].is_active
          /\ sc_in.entries[q].age > sc_in.threshold
          /\ sc_in.entries[q].stat_ok
          /\ Truthy(sc_in.entries[q].listener)
          /\ q \notin DOMAIN sc_fleets.registry

\* The entry of the registry for the id, measured against the files: it is
\* keyed by its id, its path is a file of the id that no other of the files
\* is newer than, and it is active exactly if that file is younger than 300
\* seconds or a window of the resolved name is open
CharacterEntryOk(in, registry, id, files) ==
    /\ registry[id].character_id = id
    /\ registry[id].latest_log_path \in files
    /\ \A q \in files :
          in.entries[registry[id].latest_log_path].age <= in.entries[q].age
    /\ registry[id].is_active <=>
          \/ in.entries[registry[id].latest_log_path].age < ActiveLogSeconds
          \/ is_character_window_open(in.windows, registry[id].character_name)

\* C29 as stated: after a scan of a directory that could be listed, the
\* registry of scan_active_characters has one entry for every id found in
\* the name of a Local_* file and no other entry; the entry's path is the
\* file of that id with the greatest modification time, and it is active
\* exactly if that file is younger than 300 seconds or a window for the
\* resolved name is open.
C29_OneEntryPerIdLatestLog ==
    (sc_chars # <<>> /\ ~ScanRaises(sc_in)) =>
        LET files(id) == {p \in LogFiles(sc_in, "Local") :
                             sc_in.entries[p].id = id}
        IN  /\ DOMAIN sc_chars.registry =
                  {sc_in.entries[p].id : p \in LogFiles(sc_in, "Local")} \ {0}
            /\ \A id \in DOMAIN sc_chars.registry :
                  CharacterEntryOk(sc_in, sc_chars.registry, id, files(id))

\* C29, amended: the same for the ids and files whose stat succeeded, when
\* the scan raised no OSError; the registry is empty when the scan did.
C29_OneEntryPerIdLatestReadableLog ==
    sc_chars # <<>> =>
        LET readable == {p \in LogFiles(sc_in, "Local") :
                            sc_in.entries[p].stat_ok}
            files(id) == {p \in readable : sc_in.entries[p].id = id}
        IN  /\ DOMAIN sc_chars.registry =
                  IF ScanRaises(sc_in) THEN {}
                  ELSE {sc_in.entries[p].id : p \in readable} \ {0}
            /\ \A id \in DOMAIN sc_chars.registry :
                  CharacterEntryOk(sc_in, sc_chars.registry, id, files(id))

\* A scan found two logs of one id, the newer one after the older one, and
\* the entry is active by the open window alone
C29_Witness ==
    /\ sc_chars # <<>>
    /\ \E id \in DOMAIN sc_chars.registry :
          /\ sc_chars.registry[id].latest_log_path = 2
          /\ sc_in.entries[1].id = id
          /\ is_log_of(sc_in.entries[1], "Local")
          /\ sc_in.entries[1].stat_ok
          /\ sc_in.entries[1].age > sc_in.entries[2].age
          /\ sc_in.entries[2].age >= ActiveLogSeconds
          /\ sc_chars.registry[id].is_active

(***************************************************************************)
(* Claims about source switches and the in-flight batches.                 *)
(***************************************************************************)
\* C36: once switch_fleet_log has cleared the overlay for the new source,
\* every message added to the overlay comes from the file the session now
\* tails; a message of a batch that was read from the old file and was still
\* queued or in the worker at the switch is never added.
C36_OnlyNewSourceAfterSwitch ==
    [][(Called("clear_messages") /\ Len(chat_history') > Len(chat_history)) =>
          LET m == chat_history'[Len(chat_history')]
          IN  IsLogMessage(m) => SourceOf(m.text[1]) = log_path]_vars

(***************************************************************************)
(* ChatSession.start() step by step, while the game client writes.         *)
(* start() runs on the manager's thread and the client is another process, *)
(* so a line can be appended between any two statements of start(): here   *)
(* between the history backfill and seek_to_end.                           *)
(***************************************************************************)
StartInit ==
    /\ MgrQuiet
    /\ TokQuiet
    /\ RestQuiet
    /\ disk = [p \in Paths |-> IF p = "A" THEN [exists |-> TRUE, data |-> <<>>]
                                          ELSE NoFile]
    /\ \E ok \in BOOLEAN : tailer = FleetLogTailer("A", disk, ok)
    /\ t_pc = "idle"
    /\ t_op = "init"
    /\ t_result = <<>>
    /\ t_raised = FALSE
    /\ g2 = G2Off
    /\ g4 = G4Off
    /\ age = [p \in Paths |-> 0]
    /\ log_path = "A"
    /\ is_running = FALSE
    /\ timer_active = FALSE
    /\ config = [fleet_history_lines |-> MaxHistory, polling_interval |-> 1]
    /\ chat_history = add_message(<<>>, FALSE, Welcome)
    /\ visible = FALSE
    /\ workq = <<>>
    /\ routeq = <<>>
    /\ s_calls = <<>>
    /\ run = 0
    /\ synced = {}

\* start(), lines 66-87: the check of is_running and the history backfill.
\* g2.base keeps the size the file had when the backfill read it.
StartBackfill ==
    /\ ~is_running
    /\ s_calls = <<>>
    /\ \E okStat, okRead \in BOOLEAN :
          LET bf == backfill(tailer, disk, age, config, okStat, okRead)
          IN  /\ workq' = workq \o Batches(bf.emitted, 1)
              /\ s_calls' = bf.calls
    /\ run' = 1
    /\ g2' = [G2Off EXCEPT !.st = "backfill", !.base = Len(disk[log_path].data)]
    /\ UNCHANGED <<disk, age, tailer, log_path, is_running, timer_active,
                   config, chat_history, visible, routeq, synced>>
    /\ UNCHANGED <<tokVars, t_pc, t_op, t_result, t_raised, g4,
                   svcVars, workVars, pipeVars, mgrVars>>

\* start(), lines 89-100: seek_to_end, show the overlay, start the timer
StartSeek ==
    /\ ~is_running
    /\ s_calls # <<>>
    /\ \E okSeek \in BOOLEAN : tailer' = seek_to_end(tailer, disk, okSeek)
    /\ s_calls' = s_calls \o <<"seek_to_end", "show", "timer_start">>
    /\ visible' = TRUE
    /\ timer_active' = TRUE
    /\ is_running' = TRUE
    /\ UNCHANGED <<disk, age, log_path, config, chat_history, workq, routeq,
                   run, synced>>
    /\ SessFrame

StartNext ==
    \/ WriteLine("A")
    \/ StartBackfill
    \/ StartSeek
    \/ Poll

SpecStart == StartInit /\ [][StartNext]_vars

\* The lines of the batches emitted so far, in order
RECURSIVE Dispatched(_)
Dispatched(batches) ==
    IF batches = <<>> THEN <<>>
    ELSE Head(batches).lines \o Dispatched(Tail(batches))

\* How often the line is among the lines
Occurrences(lines, line) ==
    Cardinality({i \in DOMAIN lines : lines[i] = line})

\* C37: around start(), every complete message line appended to the file
\* after the backfill read it is dispatched exactly once: when the session
\* runs and the tailer's cursor stands at the end of the file, each of these
\* lines is in exactly one of the batches emitted, also a line appended
\* between read_last_n_lines and seek_to_end.
C37_AppendedLinesDispatchedOnce ==
    (is_running /\ tailer.open
        /\ tailer.last_position = Len(disk[log_path].data)) =>
        LET later == MessageLinesFrom(
                         readlines(AppendedSince(g2.base, disk[log_path].data)), 1)
        IN  \A i \in DOMAIN later :
                Occurrences(Dispatched(workq), later[i]) = 1

(***************************************************************************)
(* translate_message on the worker's thread, statement by statement, while *)
(* the manager's thread calls worker.update_config.  tr_in is the call in  *)
(* flight, tr_calls the provider instances whose translate was invoked,    *)
(* tr_out what the last call returned.                                     *)
(***************************************************************************)
\* deepl_api_key values: those of ApiKeys, and a second key
PaidKeys == ApiKeys \cup {<<108>>}

\* target_language values of the shared configuration
TargetLanguages == {"en", "ru"}

\* Provider calls kept in tr_calls
MaxCalls == 2

ProviderInit ==
    /\ MgrQuiet
    /\ TokQuiet
    /\ TailQuiet
    /\ SessQuiet
    /\ PipeQuiet
    /\ service = GoogleService
    /\ w_config = [deepl_api_key |-> <<>>, target_language |-> "en"]
    /\ active = {}
    /\ w_trace = <<>>
    /\ tr_in = <<>>
    /\ tr_out = <<>>
    /\ tr_calls = <<>>
    /\ d_in = <<>>
    /\ d_out = <<>>
    /\ dl_out = <<>>
    /\ GlossQuiet
    /\ ScanQuiet

ProviderFrame ==
    /\ UNCHANGED <<d_in, d_out, dl_out, gl_in, gl_out, sc_in, sc_fleets,
                   sc_chars, active, w_trace>>
    /\ UNCHANGED <<tokVars, tailVars, sessVars, pipeVars, mgrVars>>

\* _handle_session_config_change: the manager calls worker.update_config
\* with the new shared configuration, on its own thread
ConfigChange(key, lang) ==
    /\ LET o == update_config(service, [deepl_api_key |-> key,
                                        target_language |-> lang])
       IN  /\ service' = o.service
           /\ w_config' = o.config
    /\ UNCHANGED <<tr_in, tr_out, tr_calls>>
    /\ ProviderFrame

\* translate_message, line 129: self.glossary.replace_terms(message), the
\* glossary object being read from the service once
TranslatePreprocess ==
    /\ tr_in = <<>>
    /\ tr_in' = [stage |-> "preprocessed", glossary |-> service.glossary]
    /\ UNCHANGED <<service, w_config, tr_out, tr_calls>>
    /\ ProviderFrame

\* translate_message, line 131: self.provider is read and its translate
\* is entered
TranslateInvoke ==
    /\ tr_in # <<>>
    /\ tr_in.stage = "preprocessed"
    /\ Len(tr_calls) < MaxCalls
    /\ tr_in' = [stage |-> "translating", glossary |-> tr_in.glossary,
                 provider |-> service.provider, api_key |-> service.api_key]
    /\ tr_calls' = Append(tr_calls, [provider |-> service.provider,
                                     api_key |-> service.api_key])
    /\ UNCHANGED <<service, w_config, tr_out>>
    /\ ProviderFrame

\* translate_message, lines 131-137: translate returns, a text or None, and
\* the tuple is built; self.provider.name is read for it at that moment
TranslateReturn ==
    /\ tr_in # <<>>
    /\ tr_in.stage = "translating"
    /\ \E ok \in BOOLEAN :
          tr_out' = [success |-> ok, provider |-> service.provider,
                     invoked |-> tr_in.provider, glossary |-> tr_in.glossary]
    /\ tr_in' = <<>>
    /\ UNCHANGED <<service, w_config, tr_calls>>
    /\ ProviderFrame

ProviderNext ==
    \/ \E key \in PaidKeys, lang \in TargetLanguages : ConfigChange(key, lang)
    \/ TranslatePreprocess
    \/ TranslateInvoke
    \/ TranslateReturn

SpecProvider == ProviderInit /\ [][ProviderNext]_vars

\* C38: the provider name a translate_message call returns is the name of
\* the provider instance whose translate was invoked for that call, also
\* when update_config replaced the provider during the call, and the
\* glossary the call used is one table of one target language.
C38_ReturnedNameIsInvokedProvider ==
    tr_out # <<>> =>
        /\ tr_out.provider = tr_out.invoked
        /\ tr_out.glossary \in TargetLanguages

\* C39: once update_config has been given a non-empty API key K, every
\* call of the paid provider is made by a provider constructed with K, also
\* when the key configured before was another non-empty key.
C39_PaidCallsUseConfiguredKey ==
    [][(TranslateInvoke /\ strip(w_config.deepl_api_key) # <<>>) =>
          LET call == tr_calls'[Len(tr_calls')]
          IN  call.provider = "DeepL" /\
              call.api_key = strip(w_config.deepl_api_key)]_vars

(***************************************************************************)
(* TranslatorManager: the registries, the selections, the two sessions,    *)
(* the periodic scan and the user's commands.  A fleet's id is the path of *)
(* its log; the listener and the creation time of a log never change.      *)
(***************************************************************************)
\* Python's None, for an id or a path
Nil == "None"

FleetIds == {"F1", "F2", "F3", "F4"}

LocalLogs == {"L1", "L2"}

\* The one character whose Local logs are in the directory
CharacterId == "c1"

\* FleetInfo.listener_name of the log
listener_name(f) == IF f = "F4" THEN "b" ELSE "a"

\* FleetInfo.created_time of the log: F1 and F2 were created together
created_time(f) ==
    CASE f = "F1" -> 1
      [] f = "F2" -> 1
      [] f = "F3" -> 2
      [] f = "F4" -> 3

\* FleetDetector.get_most_recent_fleet: max() over the registry's values
\* by created_time; of several with the greatest time, max() returns the
\* one os.scandir listed first, which is any of them
most_recent_fleets(fleets) ==
    {f \in fleets : \A g \in fleets : created_time(g) <= created_time(f)}

\* What get_most_recent_fleet may return: None for an empty registry
MostRecent(fleets) ==
    IF fleets = {} THEN {Nil} ELSE most_recent_fleets(fleets)

\* The back-to-back test with "not older" in place of "newer"
same_listener_not_older(most_recent, selected) ==
    /\ listener_name(most_recent) = listener_name(selected)
    /\ created_time(most_recent) >= created_time(selected)

\* _scan_fleets, line 729: the most recent fleet is a newer log of the
\* selected fleet's listener
same_listener_newer(most_recent, selected) ==
    /\ listener_name(most_recent) = listener_name(selected)
    /\ created_time(most_recent) > created_time(selected)

\* The manager's fields as one value
Mgr ==
    [fleet_registry |-> fleet_registry,
     selected_fleet_id |-> selected_fleet_id,
     character_registry |-> character_registry,
     selected_character_id |-> selected_character_id,
     config |-> m_config,
     sessions |-> m_sessions]

SetMgr(m) ==
    /\ fleet_registry' = m.fleet_registry
    /\ selected_fleet_id' = m.selected_fleet_id
    /\ character_registry' = m.character_registry
    /\ selected_character_id' = m.selected_character_id
    /\ m_config' = m.config
    /\ m_sessions' = m.sessions

\* self.sessions[session_id] is missing or None
NotStarted == [log_path |-> Nil, is_running |-> FALSE, timer_active |-> FALSE]

\* ChatSession(session_id, log_path, ...) after start()
StartedSession(path) ==
    [log_path |-> path, is_running |-> TRUE, timer_active |-> TRUE]

\* ChatSession.switch_fleet_log as the session model has it: the timer is
\* stopped, log_path is set and the tailer replaced, and
\* overlay.clear_messages() raises AttributeError
session_switch_fleet_log(session, new_log_path) ==
    IF ~session.is_running
    THEN [session |-> session, raised |-> FALSE]
    ELSE [session |-> [session EXCEPT !.log_path = new_log_path,
                                      !.timer_active = FALSE],
          raised |-> TRUE]

\* TranslatorManager.switch_fleet: looks the id up in self.fleet_registry
switch_fleet(m, fleet_id) ==
    IF fleet_id \notin m.fleet_registry
    THEN [m |-> m, raised |-> FALSE]
    ELSE LET m1 == [m EXCEPT !.selected_fleet_id = fleet_id]
         IN  IF m1.sessions["fleet"] # NotStarted
             THEN LET r == session_switch_fleet_log(m1.sessions["fleet"], fleet_id)
                  IN  [m |-> [m1 EXCEPT !.sessions["fleet"] = r.session],
                       raised |-> r.raised]
             ELSE [m |-> m1, raised |-> FALSE]

\* _scan_fleets, lines 711-758: the fleet the scan calls switch_fleet with,
\* None when it calls it with none
fleet_scan_target(m, new_registry, most_recent) ==
    LET selected == m.selected_fleet_id
        auto_switch_enabled == m.config.fleet_auto_switch
    IN  IF selected # Nil
        THEN IF selected \in new_registry
             THEN IF /\ auto_switch_enabled
                     /\ most_recent # Nil
                     /\ most_recent # selected
                     /\ same_listener_newer(most_recent, selected)
                  THEN most_recent ELSE Nil
             ELSE IF /\ auto_switch_enabled
                     /\ new_registry # {}
                     /\ most_recent # Nil
                     /\ most_recent # selected
                  THEN most_recent ELSE Nil
        ELSE IF /\ new_registry # {}
                /\ m.config.enabled["fleet"]
                /\ m.sessions["fleet"] # NotStarted
                /\ most_recent # Nil
             THEN most_recent ELSE Nil

\* TranslatorManager._scan_fleets; most_recent is what get_most_recent_fleet
\* returns for the new registry.  An exception of switch_fleet leaves the
\* slot before the registry is replaced.
scan_fleets(m, d, most_recent) ==
    IF ~d.exists
    THEN [m |-> m, target |-> Nil]
    ELSE LET new_registry == d.active
             selected == m.selected_fleet_id
             target == fleet_scan_target(m, new_registry, most_recent)
             dropped == /\ selected # Nil
                        /\ selected \notin new_registry
                        /\ ~(m.config.fleet_auto_switch /\ new_registry # {})
             r == IF target # Nil THEN switch_fleet(m, target)
                  ELSE [m |-> IF dropped
                              THEN [m EXCEPT !.selected_fleet_id = Nil]
                              ELSE m,
                        raised |-> FALSE]
         IN  [m |-> IF r.raised THEN r.m
                    ELSE [r.m EXCEPT !.fleet_registry = new_registry],
              target |-> target]

\* TranslatorManager._find_latest_fleet_log: the path, and the manager with
\* the selection the lookup made
find_latest_fleet_log(m, d, most_recent) ==
    IF ~d.exists THEN [path |-> Nil, m |-> m]
    ELSE IF m.selected_fleet_id # Nil /\ m.selected_fleet_id \in m.fleet_registry
    THEN [path |-> m.selected_fleet_id, m |-> m]
    ELSE IF m.fleet_registry # {} /\ most_recent # Nil
    THEN [path |-> most_recent,
          m |-> [m EXCEPT !.selected_fleet_id = most_recent]]
    ELSE [path |-> d.newest, m |-> m]

\* TranslatorManager._find_latest_local_log: the newest Local log of the
\* selected character, else the newest Local log, whose character is
\* selected when it is in the registry and none is selected
find_latest_local_log(m, d) ==
    IF ~d.exists THEN [path |-> Nil, m |-> m]
    ELSE IF m.selected_character_id # Nil /\ d.local # Nil
    THEN [path |-> d.local, m |-> m]
    ELSE IF /\ d.local # Nil
            /\ \E char_info \in m.character_registry :
                  char_info.character_id = CharacterId
            /\ m.selected_character_id = Nil
    THEN [path |-> d.local, m |-> [m EXCEPT !.selected_character_id = CharacterId]]
    ELSE [path |-> d.local, m |-> m]

get_log_path(m, d, session_id, most_recent) ==
    IF session_id = "fleet" THEN find_latest_fleet_log(m, d, most_recent)
    ELSE find_latest_local_log(m, d)

\* TranslatorManager.start_session
start_session(m, d, session_id, most_recent) ==
    IF m.sessions[session_id] # NotStarted THEN m
    ELSE LET m1 == [m EXCEPT !.config.enabled[session_id] = TRUE]
             found == get_log_path(m1, d, session_id, most_recent)
         IN  IF found.path = Nil THEN found.m
             ELSE [found.m EXCEPT
                      !.sessions[session_id] = StartedSession(found.path)]

\* TranslatorManager.stop_session
stop_session(m, session_id) ==
    IF m.sessions[session_id] = NotStarted THEN m
    ELSE [m EXCEPT !.sessions[session_id] = NotStarted,
                   !.config.enabled[session_id] = FALSE]

\* TranslatorManager.toggle_session
toggle_session(m, d, session_id, most_recent) ==
    IF m.sessions[session_id] # NotStarted
    THEN stop_session(m, session_id)
    ELSE start_session(m, d, session_id, most_recent)

\* TranslatorManager._switch_local_character
switch_local_character(m, d) ==
    start_session(stop_session(m, "local"), d, "local", Nil)

\* scan_active_characters: the character, with its newest log
scanned_characters(d) ==
    IF d.local = Nil THEN {}
    ELSE {[character_id |-> CharacterId, latest_log_path |-> d.local]}

\* TranslatorManager._scan_characters
scan_characters(m, d) ==
    IF ~d.exists THEN m
    ELSE LET new_registry == scanned_characters(d)
             selected == m.selected_character_id
             rotated ==
                 /\ selected # Nil
                 /\ \E char_info \in new_registry, old_info \in m.character_registry :
                       /\ char_info.character_id = selected
                       /\ old_info.character_id = selected
                       /\ char_info.latest_log_path # old_info.latest_log_path
             m1 == IF rotated THEN switch_local_character(m, d) ELSE m
         IN  [m1 EXCEPT !.character_registry = new_registry]

\* TranslatorManager._periodic_scan: _scan_characters, then _scan_fleets
periodic_scan(m, d, most_recent) ==
    scan_fleets(scan_characters(m, d), d, most_recent)

\* TranslatorManager._initialize_sessions
initialize_sessions(m, d, most_recent) ==
    LET m1 == IF m.config.enabled["fleet"]
              THEN start_session(m, d, "fleet", most_recent) ELSE m
    IN  IF m1.config.enabled["local"]
        THEN start_session(m1, d, "local", Nil) ELSE m1

MgrFrame == UNCHANGED <<tokVars, tailVars, sessVars, svcVars, workVars, pipeVars>>

\* The manager at the point of __init__ where its fields are set and the
\* first scan is about to run: the directory's state, the selections saved
\* in the configuration, the settings
ManagerStarts(fleet_ids, character_ids) ==
    /\ TokQuiet
    /\ TailQuiet
    /\ SessQuiet
    /\ RestQuiet
    /\ m_dir \in [exists : BOOLEAN, active : {{}}, newest : {Nil},
                  local : {Nil}]
    /\ fleet_registry = {}
    /\ selected_fleet_id \in fleet_ids
    /\ character_registry = {}
    /\ selected_character_id \in character_ids
    /\ m_config \in [fleet_auto_switch : BOOLEAN,
                     enabled : [SessionIds -> BOOLEAN]]
    /\ m_sessions = [sid \in SessionIds |-> NotStarted]
    /\ m_trace = [op |-> "call", arg |-> Nil]
    /\ m_pc = "scan"

\* The fleet logs come and go; there is no Local log
ManagerInit == ManagerStarts({Nil, "F1"}, {Nil})

\* The Local logs come; there is no fleet log
LocalInit == ManagerStarts({Nil}, {Nil, CharacterId})

\* The game client writes to the fleet log f: it is within the inactivity
\* threshold, and the file modified last
FleetLogWritten(f) ==
    /\ m_dir' = [m_dir EXCEPT !.active = @ \cup {f}, !.newest = f]
    /\ UNCHANGED <<fleet_registry, selected_fleet_id, character_registry,
                   selected_character_id, m_config, m_sessions, m_trace, m_pc>>
    /\ MgrFrame

\* The fleet log f has not been written to for longer than the threshold;
\* the file modified last is the last one to get there
FleetLogExpires(f) ==
    /\ f \in m_dir.active
    /\ f = m_dir.newest => m_dir.active = {f}
    /\ m_dir' = [m_dir EXCEPT !.active = @ \ {f}]
    /\ UNCHANGED <<fleet_registry, selected_fleet_id, character_registry,
                   selected_character_id, m_config, m_sessions, m_trace, m_pc>>
    /\ MgrFrame

\* The client of the character starts the Local log l
LocalLogCreated(l) ==
    /\ l # m_dir.local
    /\ m_dir.local = "L1" => l = "L2"
    /\ m_dir.local # "L2"
    /\ m_dir' = [m_dir EXCEPT !.local = l]
    /\ UNCHANGED <<fleet_registry, selected_fleet_id, character_registry,
                   selected_character_id, m_config, m_sessions, m_trace, m_pc>>
    /\ MgrFrame

\* __init__, line 230: the initial self._periodic_scan()
InitialScan ==
    /\ m_pc = "scan"
    /\ \E most_recent \in MostRecent(m_dir.active) :
          LET r == periodic_scan(Mgr, m_dir, most_recent)
          IN  /\ SetMgr(r.m)
              /\ m_trace' = [op |-> "scan", arg |-> r.target]
    /\ m_pc' = "ensure"
    /\ UNCHANGED m_dir
    /\ MgrFrame

\* __init__, line 236: _ensure_log_directory returns with a log directory
\* that exists, the configured one, the default one or the one the user chose
EnsureLogDirectory ==
    /\ m_pc = "ensure"
    /\ m_dir' = [m_dir EXCEPT !.exists = TRUE]
    /\ m_trace' = [op |-> "call", arg |-> Nil]
    /\ m_pc' = "sessions"
    /\ UNCHANGED <<fleet_registry, selected_fleet_id, character_registry,
                   selected_character_id, m_config, m_sessions>>
    /\ MgrFrame

\* __init__, line 239: _initialize_sessions
InitializeSessions ==
    /\ m_pc = "sessions"
    /\ \E most_recent \in MostRecent(fleet_registry) :
          SetMgr(initialize_sessions(Mgr, m_dir, most_recent))
    /\ m_trace' = [op |-> "call", arg |-> Nil]
    /\ m_pc' = "running"
    /\ UNCHANGED m_dir
    /\ MgrFrame

\* scanner_timer.timeout: _periodic_scan
PeriodicScan ==
    /\ m_pc = "running"
    /\ \E most_recent \in MostRecent(m_dir.active) :
          LET r == periodic_scan(Mgr, m_dir, most_recent)
          IN  /\ SetMgr(r.m)
              /\ m_trace' = [op |-> "scan", arg |-> r.target]
    /\ UNCHANGED <<m_dir, m_pc>>
    /\ MgrFrame

\* The user toggles a session in the tray menu or in the overlay's menu
ToggleSession(session_id) ==
    /\ m_pc = "running"
    /\ \E most_recent \in MostRecent(fleet_registry) :
          SetMgr(toggle_session(Mgr, m_dir, session_id, most_recent))
    /\ m_trace' = [op |-> "call", arg |-> Nil]
    /\ UNCHANGED <<m_dir, m_pc>>
    /\ MgrFrame

\* The user picks a fleet in the fleet overlay's menu, which lists the
\* registry: overlay.fleet_selected is connected to switch_fleet
UserSwitchFleet(fleet_id) ==
    /\ m_pc = "running"
    /\ m_sessions["fleet"] # NotStarted
    /\ fleet_id \in fleet_registry
    /\ SetMgr(switch_fleet(Mgr, fleet_id).m)
    /\ m_trace' = [op |-> "call", arg |-> Nil]
    /\ UNCHANGED <<m_dir, m_pc>>
    /\ MgrFrame

ManagerCalls ==
    \/ InitialScan
    \/ EnsureLogDirectory
    \/ InitializeSessions
    \/ PeriodicScan
    \/ \E session_id \in SessionIds : ToggleSession(session_id)

ManagerNext ==
    \/ \E f \in FleetIds : FleetLogWritten(f)
    \/ \E f \in FleetIds : FleetLogExpires(f)
    \/ ManagerCalls
    \/ \E fleet_id \in FleetIds : UserSwitchFleet(fleet_id)

LocalNext ==
    \/ \E l \in LocalLogs : LocalLogCreated(l)
    \/ ManagerCalls

SpecLocal == LocalInit /\ [][LocalNext]_vars

SpecManager == ManagerInit /\ [][ManagerNext]_vars

\* A step of _periodic_scan, the initial one or one of the timer
ScanStep == InitialScan \/ PeriodicScan

FleetSession == m_sessions["fleet"]

\* C31: when a periodic scan has decided to switch to the most recently
\* created fleet, for any of its three reasons, then at the end of that scan
\* selected_fleet_id is that fleet's id and the running fleet session tails
\* that fleet's log, also when this scan was the first to find the fleet.
C31_ScanSwitchesToItsTarget ==
    (m_trace.op = "scan" /\ m_trace.arg # Nil) =>
        /\ selected_fleet_id = m_trace.arg
        /\ FleetSession.is_running => FleetSession.log_path = m_trace.arg

\* C32: with fleet_auto_switch off, no periodic scan gives the fleet session
\* another log or selects another fleet: a scan leaves the selection as it
\* was, empties it, or names the fleet whose log the session tails already.
C32_NoSwitchWithAutoSwitchOff ==
    [][(ScanStep /\ ~m_config.fleet_auto_switch) =>
          /\ selected_fleet_id' \in {selected_fleet_id, Nil, FleetSession.log_path}
          /\ FleetSession'.log_path = FleetSession.log_path]_vars

\* C33: while the selected fleet is in the newly scanned registry, a scan
\* that changes the selection or the session's log changes them to a fleet
\* of the same listener whose creation time is strictly later than the
\* selected fleet's; it never moves to another listener's fleet, nor to one
\* created at the same time or earlier.
C33_OnlyNewerFleetOfSameListener ==
    [][(/\ ScanStep
        /\ m_dir.exists
        /\ selected_fleet_id # Nil
        /\ selected_fleet_id \in m_dir.active
        /\ \/ selected_fleet_id' # selected_fleet_id
           \/ FleetSession'.log_path # FleetSession.log_path) =>
          /\ selected_fleet_id' # Nil
          /\ listener_name(selected_fleet_id') = listener_name(selected_fleet_id)
          /\ created_time(selected_fleet_id') > created_time(selected_fleet_id)
          /\ FleetSession'.log_path \in {FleetSession.log_path,
                                         selected_fleet_id'}]_vars

\* A scan has just kept the selected fleet although a fleet of another
\* listener, created later, is in the registry and auto-switch is on
C33_Witness ==
    /\ m_trace = [op |-> "scan", arg |-> Nil]
    /\ m_config.fleet_auto_switch
    /\ selected_fleet_id = "F3"
    /\ fleet_registry = {"F3", "F4"}
    /\ FleetSession.is_running
    /\ FleetSession.log_path = "F3"

\* C34: a periodic scan starts no session and enables none: a session that
\* is not running is not running after the scan, and an enabled flag that
\* is false is false after it, also when the scan finds a new log file of
\* the selected character.
C34_ScanStartsNoSession ==
    [][ScanStep =>
          \A sid \in SessionIds :
             /\ m_sessions[sid] = NotStarted => m_sessions'[sid] = NotStarted
             /\ ~m_config.enabled[sid] => ~m_config'.enabled[sid]]_vars

\* C35: toggle_session flips the session: enabled before, it is disabled
\* afterwards and no session object is left for the id; disabled before, it
\* is enabled afterwards.  This holds also when the session is enabled and
\* no log file was found when it was started.
C35_ToggleFlips ==
    [][\A sid \in SessionIds :
          ToggleSession(sid) =>
             IF m_config.enabled[sid]
             THEN ~m_config'.enabled[sid] /\ m_sessions'[sid] = NotStarted
             ELSE m_config'.enabled[sid]]_vars

\* C40: whenever the fleet session is running and a fleet is selected, the
\* session's log_path is the log path that selected_fleet_id names.
C40_SessionTailsSelectedFleet ==
    (FleetSession.is_running /\ selected_fleet_id # Nil) =>
        FleetSession.log_path = selected_fleet_id

====
